---------------------------- MODULE Spec2Model ----------------------------
(***************************************************************************)
(* exec-sanitize: a child command's stdout and stderr are passed through   *)
(* an ordered list of pattern/replacement rules.  Text is modelled as a    *)
(* sequence of one-character strings, a compiled pattern as an ordered     *)
(* alternation of literal texts with optional ^ and $ anchors, which is    *)
(* the fragment of regexp syntax the rules of the tests and of the README  *)
(* use.                                                                    *)
(***************************************************************************)
EXTENDS Integers, Sequences, FiniteSets, TLC

\* ------------------------------------------------------------------ bounds
\* number of Write calls in one run
MaxWrites == 2
\* length of the enumerated chunks over the alphabet {a, b}
MaxLen == 1
\* number of patterns of a Patterns/Replacements sanitizer
MaxPatterns == 2
\* longest run a repetition x+ is unfolded to
MaxRepeat == 6
\* longest enumerated command line, the program's name not counted
MaxArgs == 4
\* signals delivered to the wrapper in one run
MaxSignals == 2

\* ------------------------------------------------------------------- texts
WholeLine == <<"w","h","o","l","e"," ","l","i","n","e">>
ThisLineWasDeleted == <<"t","h","i","s"," ","l","i","n","e"," ","w","a","s"," ","d","e","l","e","t","e","d">>
Delete == <<"d","e","l","e","t","e">>
ThisLineWasD == <<"t","h","i","s"," ","l","i","n","e"," ","w","a","s"," ","-","d">>
Hi == <<"H","i">>
Bye == <<"B","y","e">>
GreetingStar == <<"<","g","r","e","e","t","i","n","g","-","*",">">>
WelcomeTo == <<".","*","w","e","l","c","o","m","e"," ","t","o">>
YouHaveArrivedAt == <<"y","o","u"," ","h","a","v","e"," ","a","r","r","i","v","e","d"," ","a","t">>
ChilisIn == <<"H","i",","," ",".","*","w","e","l","c","o","m","e"," ","t","o"," ","C","h","i","l","i","'","s","."," ","B","y","e",".">>
ChilisOut == <<"<","g","r","e","e","t","i","n","g","-","0",">",","," ","y","o","u"," ","h","a","v","e"," ","a","r","r","i","v","e","d"," ","a","t"," ","C","h","i","l","i","'","s","."," ","<","g","r","e","e","t","i","n","g","-","1",">",".">>
SixA == <<"a","a","a","a","a","a">>

\* the byte 0x03 is written "ETX"
DiscardToken == <<"ETX","ETX">>
Star == "*"

\* --------------------------------------------------------------- patterns
\* regexp.QuoteMeta followed by regexp.Compile: the text matches itself
Lit(t) == [alts |-> <<t>>, bol |-> FALSE, eol |-> FALSE]
\* ^t$
Anchored(t) == [alts |-> <<t>>, bol |-> TRUE, eol |-> TRUE]
\* (t1|t2)
Alt(t1, t2) == [alts |-> <<t1, t2>>, bol |-> FALSE, eol |-> FALSE]

HasPrefixAt(s, i, a) ==
    /\ i + Len(a) - 1 <= Len(s)
    /\ \A j \in 1..Len(a) : s[i + j - 1] = a[j]

AltMatchesAt(p, s, i, a) ==
    /\ HasPrefixAt(s, i, a)
    /\ p.bol => i = 1
    /\ p.eol => i + Len(a) - 1 = Len(s)

\* length of the match of p that starts at position i of s, 0 when there is
\* none (leftmost-first: the first alternative that matches wins)
MatchLen(p, s, i) ==
    LET ok == {k \in 1..Len(p.alts) : AltMatchesAt(p, s, i, p.alts[k])}
    IN  IF ok = {} THEN 0
        ELSE Len(p.alts[CHOOSE k \in ok : \A k2 \in ok : k <= k2])

\* p.MatchString(s)
Matches(p, s) == \E i \in 1..Len(s) : MatchLen(p, s, i) > 0

\* ------------------------------------------------------ pattern texts
\* the characters regexp.QuoteMeta escapes
Meta == {"\\", ".", "+", "*", "?", "(", ")", "|", "[", "]", "{", "}", "^", "$"}

\* regexp.QuoteMeta(s)
RECURSIVE QuoteMeta(_)
QuoteMeta(s) ==
    IF s = <<>> THEN <<>>
    ELSE (IF Head(s) \in Meta THEN <<"\\", Head(s)>> ELSE <<Head(s)>>)
             \o QuoteMeta(Tail(s))

\* the pattern text read as tokens: a character, and whether it stands for
\* itself (it is no metacharacter, or a backslash precedes it); a backslash
\* with nothing after it is an error
RECURSIVE Lex(_)
Lex(s) ==
    IF s = <<>> THEN [ok |-> TRUE, toks |-> <<>>]
    ELSE IF Head(s) = "\\"
    THEN IF Len(s) = 1 THEN [ok |-> FALSE, toks |-> <<>>]
         ELSE LET r == Lex(SubSeq(s, 3, Len(s)))
              IN  [ok |-> r.ok, toks |-> <<[c |-> s[2], lit |-> TRUE]>> \o r.toks]
    ELSE LET r == Lex(Tail(s))
         IN  [ok   |-> r.ok,
              toks |-> <<[c |-> Head(s), lit |-> Head(s) \notin Meta]>> \o r.toks]

IsOp(t, c) == ~t.lit /\ t.c = c

\* the token sequences between the unescaped "|" of toks
RECURSIVE SplitBars(_, _)
SplitBars(toks, cur) ==
    IF toks = <<>> THEN <<cur>>
    ELSE IF IsOp(Head(toks), "|") THEN <<cur>> \o SplitBars(Tail(toks), <<>>)
    ELSE SplitBars(Tail(toks), Append(cur, Head(toks)))

\* n copies of character c
RECURSIVE Repeat(_, _)
Repeat(c, n) == IF n = 0 THEN <<>> ELSE <<c>> \o Repeat(c, n - 1)

\* the texts one alternative matches, the preferred one first: x+ is greedy,
\* so the longer runs come first
RECURSIVE Expand(_)
Expand(alt) ==
    IF alt = <<>> THEN << <<>> >>
    ELSE IF Len(alt) >= 2 /\ IsOp(alt[2], "+")
    THEN LET rest == Expand(SubSeq(alt, 3, Len(alt)))
             n == Len(rest)
         IN  [k \in 1..(MaxRepeat * n) |->
                  Repeat(alt[1].c, MaxRepeat - ((k - 1) \div n))
                      \o rest[((k - 1) % n) + 1]]
    ELSE LET rest == Expand(Tail(alt))
         IN  [k \in 1..Len(rest) |-> <<alt[1].c>> \o rest[k]]

RECURSIVE Flatten(_)
Flatten(qq) == IF qq = <<>> THEN <<>> ELSE Head(qq) \o Flatten(Tail(qq))

Count(toks, c) == Cardinality({i \in 1..Len(toks) : IsOp(toks[i], c)})

\* regexp.Compile(s) for pattern texts made of literal characters, escaped
\* metacharacters, x+, a leading ^, a trailing $ and one alternation, bare or
\* in parentheses: the compiled pattern, or the error Compile returns
Compile(s) ==
    LET lx == Lex(s)
        toks == lx.toks
        bol == Len(toks) >= 1 /\ IsOp(toks[1], "^")
        t1 == IF bol THEN Tail(toks) ELSE toks
        eol == Len(t1) >= 1 /\ IsOp(t1[Len(t1)], "$")
        t2 == IF eol THEN SubSeq(t1, 1, Len(t1) - 1) ELSE t1
        grouped == /\ Len(t2) >= 2
                   /\ IsOp(t2[1], "(")
                   /\ IsOp(t2[Len(t2)], ")")
        inner == IF grouped THEN SubSeq(t2, 2, Len(t2) - 1) ELSE t2
        alts == SplitBars(inner, <<>>)
        bad == \/ ~lx.ok
               \/ Count(toks, "(") # Count(toks, ")")
               \/ \E k \in 1..Len(alts) :
                      /\ alts[k] # <<>>
                      /\ \E c \in {"+", "*", "?"} : IsOp(alts[k][1], c)
    IN  IF bad THEN [err |-> "error parsing regexp", pattern |-> Lit(<<>>)]
        ELSE [err |-> "nil",
              pattern |-> [alts |-> Flatten([k \in 1..Len(alts) |->
                                                Expand(alts[k])]),
                           bol |-> bol, eol |-> eol]]

\* the pattern texts Compile is defined for above
InFragment(s) ==
    LET toks == Lex(s).toks
    IN  \A i \in 1..Len(toks) :
            toks[i].lit \/ toks[i].c \in {"(", ")", "|", "+", "^", "$"}

\* ------------------------------------------------------------ conversions
Digits == <<"0","1","2","3","4","5","6","7","8","9">>

\* fmt.Sprint of a non-negative int
RECURSIVE Sprint(_)
Sprint(n) ==
    IF n < 10 THEN <<Digits[n + 1]>>
    ELSE Sprint(n \div 10) \o <<Digits[(n % 10) + 1]>>

\* position of the first occurrence of character c in s, 0 when absent
IndexOf(s, c) ==
    IF \E i \in 1..Len(s) : s[i] = c
    THEN CHOOSE i \in 1..Len(s) : s[i] = c /\ \A j \in 1..(i - 1) : s[j] # c
    ELSE 0

\* every "*" of s replaced (a Replace with n = -1)
RECURSIVE SpliceIndexEverywhere(_, _)
SpliceIndexEverywhere(s, idx) ==
    IF s = <<>> THEN <<>>
    ELSE (IF Head(s) = Star THEN Sprint(idx) ELSE <<Head(s)>>)
             \o SpliceIndexEverywhere(Tail(s), idx)

\* strings.Replace(s, "*", fmt.Sprint(idx), 1)
SpliceIndex(s, idx) ==
    LET i == IndexOf(s, Star)
    IN  IF i = 0 THEN s
        ELSE SubSeq(s, 1, i - 1) \o Sprint(idx) \o SubSeq(s, i + 1, Len(s))

\* ------------------------------------------------------------------ state
VARIABLES
    rules,      \* parsedArgs.rules compiled: the Sanitizer's ordered rule list
    logPath,    \* parsedArgs.logPath, "" when no -log was given
    loggerIdx,  \* the counter captured by withLogger
    logDir,     \* the files of the log directory: name -> content
    puts,       \* the WriteFile calls made so far, in order
    fsOK,       \* whether ioutil.WriteFile currently succeeds
    sink,       \* per writer, the writes its wrapped io.Writer received
    rets,       \* per writer, what each Write call returned
    given,      \* per writer, the chunks handed to Write, each with the
                \* value loggerIdx had when the call began
    last,       \* the replacer invocations of the latest Write
    wr,         \* per writer, where the goroutine copying its stream stands
                \* inside Write, with the locals of Sanitize and the logger
    pr,         \* the Patterns/Replacements sanitizer, the chunks written
                \* through its writer and what the wrapped writer received
    nw,         \* the call of New: its arguments and what it returned
    rn,         \* run: its arguments, where it stands, what it printed to
                \* stderr and what it returned
    sg          \* run from the launch of the signal relay on: where run and
                \* the relay goroutine stand, c.Process, the context, and
                \* what the relay did

\* the run with an ordered rule list
runVars ==
    <<rules, logPath, loggerIdx, logDir, puts, fsOK, sink, rets, given, last,
      wr>>
\* what a run with an ordered rule list leaves alone
otherVars == <<pr, nw, rn, sg>>

vars == <<runVars, otherVars>>

Writers == {"stdout", "stderr"}

\* ------------------------------------------------------------- rule lists
Rule(p, r) == [pattern |-> p, replacement |-> r]

RulesSimple ==
    <<Rule(Anchored(WholeLine), ThisLineWasDeleted), Rule(Lit(Delete), <<"-">>)>>
RulesSimpleReversed ==
    <<Rule(Lit(Delete), <<"-">>), Rule(Anchored(WholeLine), ThisLineWasDeleted)>>
RulesReadme ==
    <<Rule(Alt(Hi, Bye), GreetingStar), Rule(Lit(WelcomeTo), YouHaveArrivedAt)>>
RulesDiscard ==
    <<Rule(Lit(<<"a">>), <<"x", "*">>), Rule(Lit(<<"b">>), DiscardToken),
      Rule(Lit(<<"x">>), <<"y">>)>>
RulesStars ==
    <<Rule(Lit(<<"a">>), <<"*", "-", "*">>), Rule(Lit(<<"b">>), <<"c">>)>>
RulesSplit ==
    <<Rule(Lit(<<"a", "b">>), <<"c">>)>>

RuleLists ==
    {RulesSimple, RulesSimpleReversed, RulesReadme, RulesDiscard, RulesStars,
     RulesSplit, <<>>}

\* the chunks a child may write
RECURSIVE TextsUpTo(_)
TextsUpTo(n) ==
    IF n = 0 THEN {<<>>}
    ELSE LET shorter == TextsUpTo(n - 1)
         IN  shorter \cup {Append(t, c) : t \in shorter, c \in {"a", "b"}}

AB == <<"a", "b">>
BB == <<"b", "b">>

\* longer chunks that exercise a rule list
Examples(rs) ==
    CASE rs \in {RulesSimple, RulesSimpleReversed} -> {WholeLine}
      [] rs = RulesReadme -> {ChilisIn}
      [] rs = RulesDiscard -> {AB, BB}
      [] rs = RulesStars -> {SixA}
      [] rs = RulesSplit -> {AB}
      [] OTHER -> {}

Chunks(rs) == TextsUpTo(MaxLen) \cup Examples(rs)

\* ----------------------------------------------------------------- logger
\* the counter advanced before it is read
ReplacerIncrementFirst(rule, in, lp, lg, fs) ==
    LET s == rule.replacement
    IN  IF lp = ""
        THEN [s |-> s, idx |-> -1, lg |-> lg]
        ELSE LET idx == lg.idx + 1
                 name == Sprint(idx)
             IN  [s   |-> SpliceIndex(s, idx),
                  idx |-> idx,
                  lg  |-> [idx  |-> lg.idx + 1,
                           dir  |-> IF fs THEN (name :> in) @@ lg.dir
                                    ELSE lg.dir,
                           puts |-> Append(lg.puts,
                                       [name |-> name, data |-> in, ok |-> fs])]]

\* a logger that gives the match up when the entry cannot be written: the
\* index is not consumed and not spliced
ReplacerGiveUp(rule, in, lp, lg, fs) ==
    LET s == rule.replacement
    IN  IF lp = ""
        THEN [s |-> s, idx |-> -1, lg |-> lg]
        ELSE LET idx == lg.idx
                 name == Sprint(idx)
             IN  IF fs
                 THEN [s   |-> SpliceIndex(s, idx),
                       idx |-> idx,
                       lg  |-> [idx  |-> lg.idx + 1,
                                dir  |-> (name :> in) @@ lg.dir,
                                puts |-> Append(lg.puts,
                                            [name |-> name, data |-> in,
                                             ok |-> TRUE])]]
                 ELSE [s   |-> s,
                       idx |-> idx,
                       lg  |-> [lg EXCEPT
                                   !.puts = Append(@, [name |-> name,
                                                       data |-> in,
                                                       ok |-> FALSE])]]

\* a logger installed whether or not a log directory was given
ReplacerAlwaysLogs(rule, in, lp, lg, fs) ==
    LET s == rule.replacement
        idx == lg.idx
        name == Sprint(idx)
    IN  [s   |-> SpliceIndex(s, idx),
         idx |-> idx,
         lg  |-> [idx  |-> lg.idx + 1,
                  dir  |-> IF fs THEN (name :> in) @@ lg.dir ELSE lg.dir,
                  puts |-> Append(lg.puts,
                              [name |-> name, data |-> in, ok |-> fs])]]

\* the closure returned by withLogger around the rule's constant replacer,
\* applied to the match in; lg = [idx, dir, puts] is the logger's state
Replacer(rule, in, lp, lg, fs) ==
    LET s == rule.replacement
    IN  IF lp = ""
        THEN [s |-> s, idx |-> -1, lg |-> lg]
        ELSE LET idx == lg.idx
                 name == Sprint(idx)
             IN  [s   |-> SpliceIndex(s, idx),
                  idx |-> idx,
                  lg  |-> [idx  |-> lg.idx + 1,
                           dir  |-> IF fs THEN (name :> in) @@ lg.dir
                                    ELSE lg.dir,
                           puts |-> Append(lg.puts,
                                       [name |-> name, data |-> in, ok |-> fs])]]

\* ---------------------------------------------------------------- Sanitize
\* s == DiscardToken
IsDiscard(s) == s = DiscardToken

\* a scan that gives up at the first discarded match
RECURSIVE ReplaceAllStopAtDiscard(_, _, _, _, _, _, _)
ReplaceAllStopAtDiscard(rule, ri, in, i, st, lp, fs) ==
    IF i > Len(in) \/ st.discard THEN st
    ELSE LET L == MatchLen(rule.pattern, in, i)
         IN  IF L = 0
             THEN ReplaceAllStopAtDiscard(rule, ri, in, i + 1,
                      [st EXCEPT !.out = Append(@, in[i])], lp, fs)
             ELSE LET m == SubSeq(in, i, i + L - 1)
                      r == Replacer(rule, m, lp, st.lg, fs)
                  IN  ReplaceAllStopAtDiscard(rule, ri, in, i + L,
                          [out     |-> st.out \o r.s,
                           discard |-> st.discard \/ IsDiscard(r.s),
                           lg      |-> r.lg,
                           calls   |-> Append(st.calls,
                                          [rule |-> ri, in |-> m,
                                           idx |-> r.idx, ret |-> r.s])],
                          lp, fs)

\* a scan that keeps only what the replacer returned
RECURSIVE ReplaceAllDropRest(_, _, _, _, _, _, _)
ReplaceAllDropRest(rule, ri, in, i, st, lp, fs) ==
    IF i > Len(in) THEN st
    ELSE LET L == MatchLen(rule.pattern, in, i)
         IN  IF L = 0
             THEN ReplaceAllDropRest(rule, ri, in, i + 1, st, lp, fs)
             ELSE LET m == SubSeq(in, i, i + L - 1)
                      r == Replacer(rule, m, lp, st.lg, fs)
                  IN  ReplaceAllDropRest(rule, ri, in, i + L,
                          [out     |-> st.out \o r.s,
                           discard |-> st.discard \/ IsDiscard(r.s),
                           lg      |-> r.lg,
                           calls   |-> Append(st.calls,
                                          [rule |-> ri, in |-> m,
                                           idx |-> r.idx, ret |-> r.s])],
                          lp, fs)

\* rule.Pattern.ReplaceAllStringFunc(in, func) from position i on; st carries
\* the text built so far, the discard flag, the logger and the invocations
RECURSIVE ReplaceAllStringFunc(_, _, _, _, _, _, _)
ReplaceAllStringFunc(rule, ri, in, i, st, lp, fs) ==
    IF i > Len(in) THEN st
    ELSE LET L == MatchLen(rule.pattern, in, i)
         IN  IF L = 0
             THEN ReplaceAllStringFunc(rule, ri, in, i + 1,
                      [st EXCEPT !.out = Append(@, in[i])], lp, fs)
             ELSE LET m == SubSeq(in, i, i + L - 1)
                      r == Replacer(rule, m, lp, st.lg, fs)
                  IN  ReplaceAllStringFunc(rule, ri, in, i + L,
                          [out     |-> st.out \o r.s,
                           discard |-> st.discard \/ IsDiscard(r.s),
                           lg      |-> r.lg,
                           calls   |-> Append(st.calls,
                                          [rule |-> ri, in |-> m,
                                           idx |-> r.idx, ret |-> r.s])],
                          lp, fs)

\* a loop that looks at the discard flag only after the last rule
RECURSIVE RuleLoopLateDiscard(_, _, _, _, _, _, _)
RuleLoopLateDiscard(rs, ri, in, lg, calls, lp, fs) ==
    IF ri > Len(rs)
    THEN [out   |-> IF \E k \in 1..Len(calls) : IsDiscard(calls[k].ret)
                    THEN <<>> ELSE in,
          lg    |-> lg,
          calls |-> calls]
    ELSE LET r == ReplaceAllStringFunc(rs[ri], ri, in, 1,
                      [out |-> <<>>, discard |-> FALSE, lg |-> lg,
                       calls |-> calls], lp, fs)
         IN  RuleLoopLateDiscard(rs, ri + 1, r.out, r.lg, r.calls, lp, fs)

\* the loop over s.Rules, from rule ri on
RECURSIVE RuleLoop(_, _, _, _, _, _, _)
RuleLoop(rs, ri, in, lg, calls, lp, fs) ==
    IF ri > Len(rs) THEN [out |-> in, lg |-> lg, calls |-> calls]
    ELSE LET r == ReplaceAllStringFunc(rs[ri], ri, in, 1,
                      [out |-> <<>>, discard |-> FALSE, lg |-> lg,
                       calls |-> calls], lp, fs)
         IN  IF r.discard
             THEN [out |-> <<>>, lg |-> r.lg, calls |-> r.calls]
             ELSE RuleLoop(rs, ri + 1, r.out, r.lg, r.calls, lp, fs)

Reverse(q) == [i \in 1..Len(q) |-> q[Len(q) + 1 - i]]

\* the rules taken from the last to the first
SanitizeLastFirst(rs, in, lg, lp, fs) ==
    RuleLoop(Reverse(rs), 1, in, lg, <<>>, lp, fs)

\* every rule numbering its matches from the index the chunk started with
RECURSIVE RuleLoopPerRuleIdx(_, _, _, _, _, _, _)
RuleLoopPerRuleIdx(rs, ri, in, lg, calls, lp, fs) ==
    IF ri > Len(rs) THEN [out |-> in, lg |-> lg, calls |-> calls]
    ELSE LET r == ReplaceAllStringFunc(rs[ri], ri, in, 1,
                      [out |-> <<>>, discard |-> FALSE, lg |-> lg,
                       calls |-> calls], lp, fs)
         IN  IF r.discard
             THEN [out |-> <<>>, lg |-> r.lg, calls |-> r.calls]
             ELSE RuleLoopPerRuleIdx(rs, ri + 1, r.out,
                      [r.lg EXCEPT !.idx = lg.idx], r.calls, lp, fs)

SanitizePerRuleIdx(rs, in, lg, lp, fs) ==
    LET r == RuleLoopPerRuleIdx(rs, 1, in, lg, <<>>, lp, fs)
    IN  [r EXCEPT !.lg.idx = lg.idx + Len(r.calls)]

Sanitize(rs, in, lg, lp, fs) == RuleLoop(rs, 1, in, lg, <<>>, lp, fs)

\* ------------------------------------------------------------------ Write
\* the length of what was forwarded
WriteNClean(p, clean) == Len(clean)

\* n = len(p)
WriteN(p, clean) == Len(p)

NoWrite == [w |-> "", p |-> <<>>, idx0 |-> 0, out |-> <<>>, calls |-> <<>>]

WritesDone == Len(given["stdout"]) + Len(given["stderr"])

\* a writer that keeps the previous chunk and sanitizes it with the new one
WriteCarry(w, p, err) ==
    /\ WritesDone < MaxWrites
    /\ LET prev == IF given[w] = <<>> THEN <<>>
                   ELSE given[w][Len(given[w])].p
           res == Sanitize(rules, prev \o p,
                      [idx |-> loggerIdx, dir |-> logDir, puts |-> puts],
                      logPath, fsOK)
       IN  /\ loggerIdx' = res.lg.idx
           /\ logDir' = res.lg.dir
           /\ puts' = res.lg.puts
           /\ sink' = [sink EXCEPT
                          ![w] = Append(@, [data |-> res.out, err |-> err])]
           /\ rets' = [rets EXCEPT
                          ![w] = Append(@, [n |-> WriteN(p, res.out),
                                           err |-> err])]
           /\ given' = [given EXCEPT
                           ![w] = Append(@, [p |-> p, idx0 |-> loggerIdx])]
           /\ last' = [w |-> w, p |-> p, idx0 |-> loggerIdx,
                       out |-> res.out, calls |-> res.calls]
    /\ UNCHANGED <<rules, logPath, fsOK, wr>>
    /\ UNCHANGED otherVars

\* SanitizerWriter.Write(p) on writer w; err is what the wrapped writer's
\* Write returns
Write(w, p, err) ==
    /\ WritesDone < MaxWrites
    /\ LET res == Sanitize(rules, p,
                      [idx |-> loggerIdx, dir |-> logDir, puts |-> puts],
                      logPath, fsOK)
       IN  /\ loggerIdx' = res.lg.idx
           /\ logDir' = res.lg.dir
           /\ puts' = res.lg.puts
           /\ sink' = [sink EXCEPT
                          ![w] = Append(@, [data |-> res.out, err |-> err])]
           /\ rets' = [rets EXCEPT
                          ![w] = Append(@, [n |-> WriteN(p, res.out),
                                           err |-> err])]
           /\ given' = [given EXCEPT
                           ![w] = Append(@, [p |-> p, idx0 |-> loggerIdx])]
           /\ last' = [w |-> w, p |-> p, idx0 |-> loggerIdx,
                       out |-> res.out, calls |-> res.calls]
    /\ UNCHANGED <<rules, logPath, fsOK, wr>>
    /\ UNCHANGED otherVars

\* the log directory becomes unwritable, or writable again
FsChange ==
    /\ WritesDone < MaxWrites
    /\ fsOK' = ~fsOK
    /\ UNCHANGED <<rules, logPath, loggerIdx, logDir, puts, sink, rets,
                   given, last, wr>>
    /\ UNCHANGED otherVars

SinkErrors == {"nil", "EPIPE"}

Idle == [pc |-> "idle"]

NoSanitizer ==
    [Patterns |-> <<>>, Replacements |-> <<>>, given |-> <<>>, sink |-> <<>>,
     rets |-> <<>>]

\* New has not been called
NotCalled ==
    [called |-> FALSE, patterns |-> <<>>, plainPatterns |-> <<>>,
     replacements |-> <<>>, err |-> "nil", nil |-> TRUE]

\* run has not been called
NoRun == [pc |-> "none"]

\* no relay goroutine has been launched
NoRelay == [main |-> "none"]

Init ==
    /\ rules \in RuleLists
    /\ logPath \in {"", "/tmp/log"}
    /\ loggerIdx = 0
    /\ logDir = <<>>
    /\ puts = <<>>
    /\ fsOK = TRUE
    /\ sink = [w \in Writers |-> <<>>]
    /\ rets = [w \in Writers |-> <<>>]
    /\ given = [w \in Writers |-> <<>>]
    /\ last = NoWrite
    /\ wr = [w \in Writers |-> Idle]
    /\ pr = NoSanitizer
    /\ nw = NotCalled
    /\ sg = NoRelay
    /\ rn = NoRun

WriteStep == \E w \in Writers, p \in Chunks(rules), err \in SinkErrors : Write(w, p, err)

Next == WriteStep \/ FsChange

Spec == Init /\ [][Next]_vars

\* ------------------------------------------- two streams, interleaved steps
\* os/exec copies stdout and stderr in one goroutine each, so the two
\* writers' Write calls run at the same time; the steps below are the
\* accesses to what they share: loggerIdx and the log directory.

\* the chunks of the interleaved runs
ConcChunks == TextsUpTo(MaxLen)

\* Sanitize run from rule ri, position pos of in, up to the next invocation
\* of a logging replacer or to the end of the rule list; out is the text
\* ReplaceAllStringFunc has built for the current rule
RECURSIVE Scan(_, _, _, _, _, _, _, _)
Scan(rs, ri, in, pos, out, discard, lp, p) ==
    IF ri > Len(rs) THEN [pc |-> "write", p |-> p, clean |-> in]
    ELSE IF pos > Len(in)
    THEN IF discard THEN [pc |-> "write", p |-> p, clean |-> <<>>]
         ELSE Scan(rs, ri + 1, out, 1, <<>>, FALSE, lp, p)
    ELSE LET L == MatchLen(rs[ri].pattern, in, pos)
         IN  IF L = 0
             THEN Scan(rs, ri, in, pos + 1, Append(out, in[pos]), discard, lp, p)
             ELSE IF lp = ""
             THEN LET s == rs[ri].replacement
                  IN  Scan(rs, ri, in, pos + L, out \o s,
                           discard \/ IsDiscard(s), lp, p)
             ELSE [pc |-> "readIdx", p |-> p, ri |-> ri, in |-> in,
                   pos |-> pos, out |-> out, discard |-> discard,
                   m |-> SubSeq(in, pos, pos + L - 1),
                   s |-> rs[ri].replacement, idx |-> 0, tmp |-> 0]

\* Write(p) is entered on writer w: clean := sw.s.Sanitize(string(p)) begins
CBegin(w, p) ==
    /\ wr[w].pc = "idle"
    /\ WritesDone < MaxWrites
    /\ wr' = [wr EXCEPT ![w] = Scan(rules, 1, p, 1, <<>>, FALSE, logPath, p)]
    /\ given' = [given EXCEPT ![w] = Append(@, [p |-> p, idx0 |-> loggerIdx])]
    /\ UNCHANGED <<rules, logPath, loggerIdx, logDir, puts, fsOK, sink, rets,
                   last>>
    /\ UNCHANGED otherVars

\* idx := loggerIdx
CReadIdx(w) ==
    /\ wr[w].pc = "readIdx"
    /\ wr' = [wr EXCEPT ![w].idx = loggerIdx, ![w].pc = "incLoad"]
    /\ UNCHANGED <<rules, logPath, loggerIdx, logDir, puts, fsOK, sink, rets,
                   given, last>>
    /\ UNCHANGED otherVars

\* loggerIdx++ : the load
CIncLoad(w) ==
    /\ wr[w].pc = "incLoad"
    /\ wr' = [wr EXCEPT ![w].tmp = loggerIdx, ![w].pc = "incStore"]
    /\ UNCHANGED <<rules, logPath, loggerIdx, logDir, puts, fsOK, sink, rets,
                   given, last>>
    /\ UNCHANGED otherVars

\* loggerIdx++ : the store
CIncStore(w) ==
    /\ wr[w].pc = "incStore"
    /\ loggerIdx' = wr[w].tmp + 1
    /\ wr' = [wr EXCEPT ![w].pc = "put"]
    /\ UNCHANGED <<rules, logPath, logDir, puts, fsOK, sink, rets, given, last>>
    /\ UNCHANGED otherVars

\* ioutil.WriteFile(filepath.Join(a.logPath, fmt.Sprint(idx)), []byte(in)),
\* then the replacer returns and ReplaceAllStringFunc goes on
CPut(w) ==
    /\ wr[w].pc = "put"
    /\ LET l == wr[w]
           name == Sprint(l.idx)
           s == SpliceIndex(l.s, l.idx)
       IN  /\ puts' = Append(puts, [name |-> name, data |-> l.m, ok |-> fsOK])
           /\ logDir' = IF fsOK THEN (name :> l.m) @@ logDir ELSE logDir
           /\ wr' = [wr EXCEPT
                        ![w] = Scan(rules, l.ri, l.in, l.pos + Len(l.m),
                                    l.out \o s, l.discard \/ IsDiscard(s),
                                    logPath, l.p)]
    /\ UNCHANGED <<rules, logPath, loggerIdx, fsOK, sink, rets, given, last>>
    /\ UNCHANGED otherVars

\* n = len(p); _, err = sw.w.Write([]byte(clean)); return
CSinkWrite(w, err) ==
    /\ wr[w].pc = "write"
    /\ sink' = [sink EXCEPT
                   ![w] = Append(@, [data |-> wr[w].clean, err |-> err])]
    /\ rets' = [rets EXCEPT
                   ![w] = Append(@, [n |-> WriteN(wr[w].p, wr[w].clean),
                                    err |-> err])]
    /\ wr' = [wr EXCEPT ![w] = Idle]
    /\ UNCHANGED <<rules, logPath, loggerIdx, logDir, puts, fsOK, given, last>>
    /\ UNCHANGED otherVars

NextConc ==
    \/ \E w \in Writers, p \in ConcChunks : CBegin(w, p)
    \/ \E w \in Writers : CReadIdx(w)
    \/ \E w \in Writers : CIncLoad(w)
    \/ \E w \in Writers : CIncStore(w)
    \/ \E w \in Writers : CPut(w)
    \/ \E w \in Writers, err \in SinkErrors : CSinkWrite(w, err)
    \/ FsChange

SpecConc == Init /\ [][NextConc]_vars

\* ---------------------------------------- Patterns/Replacements sanitizer
AtDiscard == <<"@","d","i","s","c","a","r","d">>
AtAtDiscard == <<"@","@","d","i","s","c","a","r","d">>

\* discardToken
discardToken == AtDiscard
\* discardTokenEscaped
discardTokenEscaped == AtAtDiscard

\* p.ReplaceAllLiteral(in, replacement), from position i on
RECURSIVE ReplaceAllLiteral(_, _, _, _)
ReplaceAllLiteral(p, in, replacement, i) ==
    IF i > Len(in) THEN <<>>
    ELSE LET L == MatchLen(p, in, i)
         IN  IF L = 0
             THEN <<in[i]>> \o ReplaceAllLiteral(p, in, replacement, i + 1)
             ELSE replacement \o ReplaceAllLiteral(p, in, replacement, i + L)

\* the loop over s.Patterns from pattern i on; replacement is the local
\* variable of that name, which keeps its value from one pass to the next
RECURSIVE PatternLoop(_, _, _, _, _)
PatternLoop(ps, reps, i, replacement, in) ==
    IF i > Len(ps) THEN in
    ELSE LET r1 == IF Len(reps) > 1 THEN reps[i] ELSE replacement
         IN  IF r1 = discardToken /\ Matches(ps[i], in) THEN <<>>
             ELSE LET r2 == IF r1 = discardTokenEscaped THEN discardToken
                            ELSE r1
                  IN  PatternLoop(ps, reps, i + 1, r2,
                                  ReplaceAllLiteral(ps[i], in, r2, 1))

\* Sanitizer.Sanitize of the Patterns/Replacements sanitizer
SanitizePR(ps, reps, in) ==
    PatternLoop(ps, reps, 1, IF Len(reps) = 1 THEN reps[1] ELSE <<>>, in)

RECURSIVE SeqsUpTo(_, _)
SeqsUpTo(S, n) ==
    IF n = 0 THEN {<<>>}
    ELSE LET shorter == SeqsUpTo(S, n - 1)
         IN  shorter \cup {Append(q, x) : q \in shorter, x \in S}

PRPatterns == {Lit(<<"a">>), Lit(<<"b">>)}
PRReplacements == {<<"x">>, discardToken, discardTokenEscaped}
PRChunks == TextsUpTo(MaxLen) \cup {AB}

\* every plain pattern quoted
QuoteAll(ss) == [i \in 1..Len(ss) |-> QuoteMeta(ss[i])]

\* the first text of ss, from i on, that does not compile; 0 if all do
RECURSIVE FirstBad(_, _)
FirstBad(ss, i) ==
    IF i > Len(ss) THEN 0
    ELSE IF Compile(ss[i]).err # "nil" THEN i
    ELSE FirstBad(ss, i + 1)

ErrMismatched == "error: mismatched number of replacements"
ErrParsing == "error parsing pattern"

\* what New returns when it fails
NewFailed(err) ==
    [err |-> err, nil |-> TRUE, Patterns |-> <<>>, Replacements |-> <<>>]

\* the patterns compiled in the order regex, then plain
NewRegexFirst(patterns, plainPatterns, replacements) ==
    IF /\ Len(replacements) > 1
       /\ Len(replacements) # Len(patterns) + Len(plainPatterns)
    THEN NewFailed(ErrMismatched)
    ELSE LET texts == patterns \o QuoteAll(plainPatterns)
         IN  IF FirstBad(texts, 1) # 0 THEN NewFailed(ErrParsing)
             ELSE [err |-> "nil", nil |-> FALSE,
                   Patterns |-> [i \in 1..Len(texts) |->
                                    Compile(texts[i]).pattern],
                   Replacements |-> replacements]

\* any number of replacements other than one per pattern refused
NewStrictCount(patterns, plainPatterns, replacements) ==
    IF Len(replacements) # Len(patterns) + Len(plainPatterns)
    THEN NewFailed(ErrMismatched)
    ELSE LET texts == QuoteAll(plainPatterns) \o patterns
         IN  IF FirstBad(texts, 1) # 0 THEN NewFailed(ErrParsing)
             ELSE [err |-> "nil", nil |-> FALSE,
                   Patterns |-> [i \in 1..Len(texts) |->
                                    Compile(texts[i]).pattern],
                   Replacements |-> replacements]

\* New(patterns, plainPatterns, replacements): the error, whether the
\* returned *Sanitizer is nil, and the fields of the Sanitizer
New(patterns, plainPatterns, replacements) ==
    IF /\ Len(replacements) > 1
       /\ Len(replacements) # Len(patterns) + Len(plainPatterns)
    THEN NewFailed(ErrMismatched)
    ELSE LET texts == QuoteAll(plainPatterns) \o patterns
         IN  IF FirstBad(texts, 1) # 0 THEN NewFailed(ErrParsing)
             ELSE [err |-> "nil", nil |-> FALSE,
                   Patterns |-> [i \in 1..Len(texts) |->
                                    Compile(texts[i]).pattern],
                   Replacements |-> replacements]

\* the example of the sanitizer's test "plaintext first regex second"
ABPlusC == <<"a", "b", "+", "c">>
ABBC == <<"a", "b", "b", "c">>
AC == <<"a", "c">>
APlusC == <<"a", "+", "c">>
PlainFirstIn ==
    ABBC \o <<" ", "a", "b", "b", "b", "b", "c", " ", "a", "b", "c", " ">>
         \o <<"a", "b", "b", "b", "b", "b", "b", "c">>
PlainFirstOut == AC \o <<" ">> \o APlusC \o <<" ">> \o APlusC \o <<" ">> \o APlusC

\* the arguments New is called with: "(" does not compile as a pattern and
\* is a literal when quoted
NewRegexTexts == {<<"a">>, <<"(">>}
NewPlainTexts == {<<"b">>, <<"(">>, <<"a">>}
NewArgs ==
    {<<ps, pl, reps>> :
         ps \in SeqsUpTo(NewRegexTexts, MaxPatterns - 1),
         pl \in SeqsUpTo(NewPlainTexts, MaxPatterns - 1),
         reps \in SeqsUpTo(PRReplacements, MaxPatterns)}
        \cup {<< <<ABPlusC>>, <<ABBC>>, <<AC, APlusC>> >>}

\* s, err := execsanitize.New(patterns, plainPatterns, replacements), as
\* main calls it once, before anything is written
PRNew(patterns, plainPatterns, replacements) ==
    /\ ~nw.called
    /\ pr = NoSanitizer
    /\ LET res == New(patterns, plainPatterns, replacements)
       IN  /\ nw' = [called |-> TRUE, patterns |-> patterns,
                     plainPatterns |-> plainPatterns,
                     replacements |-> replacements,
                     err |-> res.err, nil |-> res.nil]
           /\ pr' = IF res.nil THEN pr
                    ELSE [pr EXCEPT !.Patterns = res.Patterns,
                                    !.Replacements = res.Replacements]
    /\ UNCHANGED <<runVars, rn, sg>>

\* the chunks written through the sanitizer s
PRChunksOf(s) ==
    IF s.Replacements = <<AC, APlusC>> THEN {PlainFirstIn} ELSE PRChunks

\* the sanitizers New returns: no replacement, one, or one per pattern
PRSanitizers ==
    {[Patterns |-> ps, Replacements |-> reps, given |-> <<>>, sink |-> <<>>,
      rets |-> <<>>] :
        ps \in SeqsUpTo(PRPatterns, MaxPatterns),
        reps \in SeqsUpTo(PRReplacements, MaxPatterns)}

ValidPR(x) ==
    Len(x.Replacements) > 1 => Len(x.Replacements) = Len(x.Patterns)

\* SanitizerWriter.Write of the Patterns/Replacements sanitizer
PRWrite(p, err) ==
    /\ Len(pr.given) < MaxWrites
    /\ nw.err = "nil"
    /\ LET clean == SanitizePR(pr.Patterns, pr.Replacements, p)
       IN  pr' = [pr EXCEPT
                     !.given = Append(@, p),
                     !.sink = Append(@, [data |-> clean, err |-> err]),
                     !.rets = Append(@, [n |-> Len(p), err |-> err])]
    /\ UNCHANGED <<runVars, nw, rn, sg>>

InitPR ==
    /\ rules = <<>>
    /\ logPath = ""
    /\ loggerIdx = 0
    /\ logDir = <<>>
    /\ puts = <<>>
    /\ fsOK = TRUE
    /\ sink = [w \in Writers |-> <<>>]
    /\ rets = [w \in Writers |-> <<>>]
    /\ given = [w \in Writers |-> <<>>]
    /\ last = NoWrite
    /\ wr = [w \in Writers |-> Idle]
    /\ pr \in {x \in PRSanitizers : ValidPR(x)}
    /\ nw = NotCalled
    /\ sg = NoRelay
    /\ rn = NoRun

PRWriteStep == \E p \in PRChunksOf(pr), err \in SinkErrors : PRWrite(p, err)

PRNewStep == \E a \in NewArgs : PRNew(a[1], a[2], a[3])

NextPR == PRWriteStep \/ PRNewStep

SpecPR == InitPR /\ [][NextPR]_vars

\* ---------------------------------------------------------------- parseArgs
\* the flags, as the texts they are on the command line
FlagLog == <<"-", "l", "o", "g">>
FlagRegex == <<"-", "p", ":", "r", "e", "g", "e", "x">>
FlagPlain == <<"-", "p", ":", "p", "l", "a", "i", "n">>
FlagR == <<"-", "r">>
DashDash == <<"-", "-">>
Help == <<"-", "-", "h", "e", "l", "p">>

errPrintUsage == "u"
ErrUnbalanced == "unbalanced number of args"
ErrPatternPending == "pattern must be followed with a replacement"
ErrNoPattern == "replacement must be directly preceeded by a pattern"
ErrUnrecognized == "unrecognized flag"

\* parsed := &parsedArgs{}
EmptyParsed ==
    [err |-> "nil", flag |-> <<>>, rules |-> <<>>, cmd |-> <<>>,
     cmdArgs |-> <<>>, logPath |-> <<>>]

\* return nil, err; flag is the argument an "unrecognized flag" error names
ParseFailed(err, flag) == [EmptyParsed EXCEPT !.err = err, !.flag = flag]

\* the statements after the loop; i counts the arguments consumed
ParseEnd(args, i, parsed) ==
    [parsed EXCEPT
        !.cmd = IF i < Len(args) THEN args[i + 1] ELSE <<>>,
        !.cmdArgs = IF i + 1 < Len(args) THEN SubSeq(args, i + 2, Len(args))
                    ELSE <<>>]

\* a loop that stores a -p:plain pattern as it was given
RECURSIVE ParseLoopUnquoted(_, _, _, _)
ParseLoopUnquoted(args, i, rule, parsed) ==
    IF i >= Len(args) THEN ParseEnd(args, i, parsed)
    ELSE LET arg == args[i + 1]
         IN  IF arg = DashDash THEN ParseEnd(args, i + 1, parsed)
             ELSE IF arg = Help THEN ParseFailed(errPrintUsage, <<>>)
             ELSE IF i + 1 >= Len(args) THEN ParseFailed(ErrUnbalanced, <<>>)
             ELSE LET value == args[i + 2]
                  IN  CASE arg = FlagLog ->
                               ParseLoopUnquoted(args, i + 2, rule,
                                   [parsed EXCEPT !.logPath = value])
                        [] arg = FlagRegex \/ arg = FlagPlain ->
                               IF rule # <<>>
                               THEN ParseFailed(ErrPatternPending, <<>>)
                               ELSE ParseLoopUnquoted(args, i + 2, value, parsed)
                        [] arg = FlagR ->
                               IF rule = <<>>
                               THEN ParseFailed(ErrNoPattern, <<>>)
                               ELSE ParseLoopUnquoted(args, i + 2, <<>>,
                                        [parsed EXCEPT !.rules =
                                            Append(@, [pattern |-> rule,
                                                       replacement |-> value])])
                        [] OTHER -> ParseFailed(ErrUnrecognized, arg)

\* the loop of parseArgs, i arguments consumed and rule the pattern that
\* waits for its replacement
RECURSIVE ParseLoop(_, _, _, _)
ParseLoop(args, i, rule, parsed) ==
    IF i >= Len(args) THEN ParseEnd(args, i, parsed)
    ELSE LET arg == args[i + 1]
         IN  IF arg = DashDash THEN ParseEnd(args, i + 1, parsed)
             ELSE IF arg = Help THEN ParseFailed(errPrintUsage, <<>>)
             ELSE IF i + 1 >= Len(args) THEN ParseFailed(ErrUnbalanced, <<>>)
             ELSE LET value == args[i + 2]
                  IN  CASE arg = FlagLog ->
                               ParseLoop(args, i + 2, rule,
                                   [parsed EXCEPT !.logPath = value])
                        [] arg = FlagRegex ->
                               IF rule # <<>>
                               THEN ParseFailed(ErrPatternPending, <<>>)
                               ELSE ParseLoop(args, i + 2, value, parsed)
                        [] arg = FlagPlain ->
                               IF rule # <<>>
                               THEN ParseFailed(ErrPatternPending, <<>>)
                               ELSE ParseLoop(args, i + 2, QuoteMeta(value),
                                              parsed)
                        [] arg = FlagR ->
                               IF rule = <<>>
                               THEN ParseFailed(ErrNoPattern, <<>>)
                               ELSE ParseLoop(args, i + 2, <<>>,
                                        [parsed EXCEPT !.rules =
                                            Append(@, [pattern |-> rule,
                                                       replacement |-> value])])
                        [] OTHER -> ParseFailed(ErrUnrecognized, arg)

\* a loop that appends a rule for every -r, with or without a pattern
\* waiting
RECURSIVE ParseLoopAnyR(_, _, _, _)
ParseLoopAnyR(args, i, rule, parsed) ==
    IF i >= Len(args) THEN ParseEnd(args, i, parsed)
    ELSE LET arg == args[i + 1]
         IN  IF arg = DashDash THEN ParseEnd(args, i + 1, parsed)
             ELSE IF arg = Help THEN ParseFailed(errPrintUsage, <<>>)
             ELSE IF i + 1 >= Len(args) THEN ParseFailed(ErrUnbalanced, <<>>)
             ELSE LET value == args[i + 2]
                  IN  CASE arg = FlagLog ->
                               ParseLoopAnyR(args, i + 2, rule,
                                   [parsed EXCEPT !.logPath = value])
                        [] arg = FlagRegex ->
                               IF rule # <<>>
                               THEN ParseFailed(ErrPatternPending, <<>>)
                               ELSE ParseLoopAnyR(args, i + 2, value, parsed)
                        [] arg = FlagPlain ->
                               IF rule # <<>>
                               THEN ParseFailed(ErrPatternPending, <<>>)
                               ELSE ParseLoopAnyR(args, i + 2,
                                                  QuoteMeta(value), parsed)
                        [] arg = FlagR ->
                               ParseLoopAnyR(args, i + 2, <<>>,
                                   [parsed EXCEPT !.rules =
                                       Append(@, [pattern |-> rule,
                                                  replacement |-> value])])
                        [] OTHER -> ParseFailed(ErrUnrecognized, arg)

\* parseArgs with the loop that never refuses a -r
parseArgsAnyR(args) == ParseLoopAnyR(args, 0, <<>>, EmptyParsed)

\* parseArgs with the unquoting loop
parseArgsUnquoted(args) == ParseLoopUnquoted(args, 0, <<>>, EmptyParsed)

\* parseArgs(args)
parseArgs(args) == ParseLoop(args, 0, <<>>, EmptyParsed)

\* --------------------------------------------------------------------- run
\* what run prints to stderr
Printed(msg, code) == [msg |-> msg, code |-> code]
UsageText == Printed("usage", 0)

\* parsedArgs.Rules(): the error of the first pattern that does not compile
\* and the compiled rules
Rules(parsed) ==
    LET texts == [i \in 1..Len(parsed.rules) |-> parsed.rules[i].pattern]
    IN  IF FirstBad(texts, 1) # 0
        THEN [err |-> "parsing pattern", rules |-> <<>>]
        ELSE [err |-> "nil",
              rules |-> [i \in 1..Len(texts) |->
                            Rule(Compile(texts[i]).pattern,
                                 parsed.rules[i].replacement)]]

\* what c.Run() can return: nil, an *exec.ExitError of a child that exited
\* with a non-zero code, an *exec.ExitError of a child ended by a signal,
\* or an error of another type (the command could not be started, or its
\* output could not be copied)
RunResults ==
    {[kind |-> "nil", code |-> 0], [kind |-> "signal", code |-> 0],
     [kind |-> "error", code |-> 0]}
        \cup {[kind |-> "exit", code |-> c] : c \in {1, 5}}

\* errors.As(err, &exerr)
IsExitError(res) == res.kind \in {"exit", "signal"}

\* exerr.ExitCode(): -1 for a process that was ended by a signal
ExitCode(res) == IF res.kind = "exit" THEN res.code ELSE -1

\* every failure of the command reported with status 1
AfterRunOne(res) ==
    IF res.kind = "nil" THEN [ret |-> 0, printed |-> <<>>]
    ELSE [ret |-> 1, printed |-> <<Printed("command exited with error", 0)>>]

\* the statements of run after err = c.Run(): the status run returns and
\* what it prints
AfterRun(res) ==
    IF res.kind = "nil" THEN [ret |-> 0, printed |-> <<>>]
    ELSE IF IsExitError(res)
    THEN [ret |-> ExitCode(res),
          printed |-> <<Printed("command exited with code", ExitCode(res))>>]
    ELSE [ret |-> 1, printed |-> <<Printed("command exited with error", 0)>>]

\* run returns ret after printing msgs
RunReturn(ret, msgs) ==
    rn' = [rn EXCEPT !.pc = "done", !.ret = ret, !.printed = @ \o msgs]

\* run up to and including parseArgs(args[1:])
RunParseArgs ==
    /\ rn.pc = "start"
    /\ IF Len(rn.args) < 2 THEN RunReturn(1, <<UsageText>>)
       ELSE LET parsed == parseArgs(Tail(rn.args))
            IN  IF parsed.err = errPrintUsage
                THEN rn' = [rn EXCEPT !.pc = "done", !.ret = 0,
                                      !.parsed = parsed,
                                      !.printed = @ \o <<UsageText>>]
                ELSE IF parsed.err # "nil"
                THEN rn' = [rn EXCEPT !.pc = "done", !.ret = 1,
                                      !.parsed = parsed,
                                      !.printed = @ \o <<Printed(parsed.err, 0)>>]
                ELSE rn' = [rn EXCEPT !.pc = "parsed", !.parsed = parsed]
    /\ UNCHANGED <<runVars, pr, nw, sg>>

\* rules, err := parsedArgs.Rules()
RunRules ==
    /\ rn.pc = "parsed"
    /\ LET r == Rules(rn.parsed)
       IN  IF r.err # "nil" THEN RunReturn(1, <<Printed(r.err, 0)>>)
           ELSE rn' = [rn EXCEPT !.pc = "ready", !.rules = r.rules]
    /\ UNCHANGED <<runVars, pr, nw, sg>>

\* a run that starts the command as soon as the arguments are parsed
RunStartUnchecked(found) ==
    /\ rn.pc \in {"parsed", "ready"}
    /\ ~rn.started
    /\ IF rn.parsed.cmd = <<>> \/ ~found
       THEN LET res == [kind |-> "error", code |-> 0]
                a == AfterRun(res)
            IN  rn' = [rn EXCEPT !.pc = "done", !.ran = TRUE, !.res = res,
                                 !.ret = a.ret, !.printed = @ \o a.printed]
       ELSE rn' = [rn EXCEPT !.started = TRUE, !.ran = TRUE,
                             !.pc = IF @ = "ready" THEN "running" ELSE @]
    /\ UNCHANGED <<runVars, pr, nw, sg>>

\* err = c.Run(), up to the start of the child: the command is missing or
\* cannot be found, and Run returns at once, or the child is started
RunStart(found) ==
    /\ rn.pc = "ready"
    /\ ~rn.started
    /\ IF rn.parsed.cmd = <<>> \/ ~found
       THEN LET res == [kind |-> "error", code |-> 0]
                a == AfterRun(res)
            IN  rn' = [rn EXCEPT !.pc = "done", !.ran = TRUE, !.res = res,
                                 !.ret = a.ret, !.printed = @ \o a.printed]
       ELSE rn' = [rn EXCEPT !.started = TRUE, !.ran = TRUE,
                             !.pc = "running"]
    /\ UNCHANGED <<runVars, pr, nw, sg>>

\* c.Run() returns res for the started child, and run finishes
RunExit(res) ==
    /\ rn.pc = "running"
    /\ LET a == AfterRun(res)
       IN  rn' = [rn EXCEPT !.pc = "done", !.ret = a.ret, !.res = res,
                            !.printed = @ \o a.printed]
    /\ UNCHANGED <<runVars, pr, nw, sg>>

\* the command lines of the runs: every list of up to MaxArgs of these
\* arguments, and the lists of the tests
ArgTokens ==
    {FlagLog, FlagRegex, FlagPlain, FlagR, DashDash, <<"a">>, <<"(">>, <<>>}

Prog == <<"e", "s">>
Echo == <<"e", "c", "h", "o">>
Tmp == <<"/", "t", "m", "p">>
Hello == <<"H", "e", "l", "l", "o">>
Escape == <<"^", "e", "s", "c", "a", "p", "e", "$">>
EscapeQuoted == <<"\\", "^", "e", "s", "c", "a", "p", "e", "\\", "$">>
N1234 == <<"1", "2", "3", "4">>
SomePattern ==
    <<"s", "o", "m", "e", " ", "p", "a", "t", "t", "e", "r", "n">>
Another == <<"a", "n", "o", "t", "h", "e", "r">>
FlagYe == <<"-", "y", "e">>

ArgsFull ==
    <<FlagLog, Tmp, FlagPlain, Hi, FlagR, Hello, FlagPlain, Escape, FlagR,
      N1234, FlagRegex, SomePattern, FlagR, Another, DashDash, Echo, Hi, Bye>>

ExampleArgs ==
    {ArgsFull,
     <<Help>>,
     <<FlagYe, <<"a">> >>,
     <<FlagRegex, <<"a">>, FlagR, <<"x">>, DashDash, Echo, FlagR, DashDash,
       FlagLog>>,
     <<FlagRegex, <<"(">>, FlagR, <<"x">>, DashDash, Echo>>,
     <<FlagPlain, <<"(">>, FlagR, <<"x">>, DashDash, Echo>>,
     <<FlagRegex, <<"a">>, FlagLog, Tmp, FlagR, <<"x">>, DashDash, Echo>>,
     <<FlagLog, Tmp, FlagRegex, <<"a">>, DashDash, Echo>>,
     <<FlagRegex, <<>>, FlagPlain, <<"(">>, FlagR, <<"x">>, DashDash, Echo>>}

ArgLists == SeqsUpTo(ArgTokens, MaxArgs) \cup ExampleArgs

InitRun ==
    /\ rules = <<>>
    /\ logPath = ""
    /\ loggerIdx = 0
    /\ logDir = <<>>
    /\ puts = <<>>
    /\ fsOK = TRUE
    /\ sink = [w \in Writers |-> <<>>]
    /\ rets = [w \in Writers |-> <<>>]
    /\ given = [w \in Writers |-> <<>>]
    /\ last = NoWrite
    /\ wr = [w \in Writers |-> Idle]
    /\ pr = NoSanitizer
    /\ nw = NotCalled
    /\ sg = NoRelay
    /\ \E a \in ArgLists :
           rn = [pc |-> "start", args |-> <<Prog>> \o a,
                 parsed |-> EmptyParsed, rules |-> <<>>, ran |-> FALSE,
                 started |-> FALSE,
                 res |-> [kind |-> "nil", code |-> 0], ret |-> 0,
                 printed |-> <<>>]

RunStartStep == \E found \in BOOLEAN : RunStart(found)

RunExitStep == \E res \in RunResults : RunExit(res)

NextRun == RunParseArgs \/ RunRules \/ RunStartStep \/ RunExitStep

SpecRun == InitRun /\ [][NextRun]_vars

\* ------------------------------------------ parseArgs with -r:discard
FlagRDiscard == <<"-", "r", ":", "d", "i", "s", "c", "a", "r", "d">>

\* strings.HasPrefix(s, prefix)
HasPrefix(s, prefix) ==
    Len(s) >= Len(prefix) /\ SubSeq(s, 1, Len(prefix)) = prefix

\* the statements after the loop; args is what the loop left
ParseEndD(args, parsed) ==
    IF Len(args) > 0
    THEN [parsed EXCEPT !.cmd = args[1], !.cmdArgs = Tail(args)]
    ELSE parsed

\* the loop of the parseArgs that knows -r:discard: args is what is left of
\* the arguments and rule the pattern that waits for its replacement.  In
\* the first check && binds tighter than ||, so it reads
\* arg == "-r" || (HasPrefix(arg, "-r:") && rule == "").
RECURSIVE ParseLoopD(_, _, _)
ParseLoopD(args, rule, parsed) ==
    IF Len(args) = 0 THEN ParseEndD(args, parsed)
    ELSE LET arg == args[1]
             rest == Tail(args)
         IN  IF arg = DashDash THEN ParseEndD(rest, parsed)
             ELSE IF \/ arg = FlagR
                     \/ (HasPrefix(arg, <<"-", "r", ":">>) /\ rule = <<>>)
             THEN ParseFailed(ErrNoPattern, <<>>)
             ELSE IF HasPrefix(arg, <<"-", "p", ":">>) /\ rule # <<>>
             THEN ParseFailed(ErrPatternPending, <<>>)
             ELSE IF arg = Help THEN ParseFailed(errPrintUsage, <<>>)
             ELSE IF arg = FlagRDiscard
             THEN ParseLoopD(rest, <<>>,
                      [parsed EXCEPT !.rules =
                          Append(@, [pattern |-> rule,
                                     replacement |-> DiscardToken])])
             ELSE IF Len(rest) = 0 THEN ParseFailed(ErrUnbalanced, <<>>)
             ELSE LET value == rest[1]
                      rest2 == Tail(rest)
                  IN  CASE arg = FlagLog ->
                               ParseLoopD(rest2, rule,
                                   [parsed EXCEPT !.logPath = value])
                        [] arg = FlagRegex -> ParseLoopD(rest2, value, parsed)
                        [] arg = FlagPlain ->
                               ParseLoopD(rest2, QuoteMeta(value), parsed)
                        [] arg = FlagR ->
                               ParseLoopD(rest2, <<>>,
                                   [parsed EXCEPT !.rules =
                                       Append(@, [pattern |-> rule,
                                                  replacement |-> value])])
                        [] OTHER -> ParseFailed(ErrUnrecognized, arg)

\* parseArgs(args) of the variant that knows -r:discard
parseArgsD(args) == ParseLoopD(args, <<>>, EmptyParsed)

\* run of that variant, up to and including parseArgs(args[1:])
RunParseArgsD ==
    /\ rn.pc = "start"
    /\ IF Len(rn.args) < 2 THEN RunReturn(1, <<UsageText>>)
       ELSE LET parsed == parseArgsD(Tail(rn.args))
            IN  IF parsed.err = errPrintUsage
                THEN rn' = [rn EXCEPT !.pc = "done", !.ret = 0,
                                      !.parsed = parsed,
                                      !.printed = @ \o <<UsageText>>]
                ELSE IF parsed.err # "nil"
                THEN rn' = [rn EXCEPT !.pc = "done", !.ret = 1,
                                      !.parsed = parsed,
                                      !.printed = @ \o <<Printed(parsed.err, 0)>>]
                ELSE rn' = [rn EXCEPT !.pc = "parsed", !.parsed = parsed]
    /\ UNCHANGED <<runVars, pr, nw, sg>>

ArgTokensD ==
    {FlagLog, FlagRegex, FlagPlain, FlagR, FlagRDiscard, DashDash, <<"a">>,
     <<>>}

ExampleArgsD ==
    {<<Help>>,
     <<FlagYe, <<"a">> >>,
     <<FlagRegex, <<"a">>, FlagR, <<"x">>, DashDash, Echo>>,
     <<FlagRegex, <<"a">>, FlagRDiscard, DashDash, Echo, Hi>>,
     <<FlagRegex, <<"(">>, FlagRDiscard, DashDash, Echo>>,
     <<FlagRegex, <<"a">>, FlagRDiscard, FlagPlain, <<"(">>, FlagRDiscard,
       DashDash, Echo>>,
     <<FlagLog, Tmp, FlagRegex, <<"a">>, FlagLog, Tmp, FlagRDiscard,
       DashDash, Echo>>,
     <<FlagRegex, <<>>, FlagPlain, <<"(">>, FlagRDiscard, DashDash, Echo>>}

ArgListsD == SeqsUpTo(ArgTokensD, MaxArgs) \cup ExampleArgsD

InitRunD ==
    /\ rules = <<>>
    /\ logPath = ""
    /\ loggerIdx = 0
    /\ logDir = <<>>
    /\ puts = <<>>
    /\ fsOK = TRUE
    /\ sink = [w \in Writers |-> <<>>]
    /\ rets = [w \in Writers |-> <<>>]
    /\ given = [w \in Writers |-> <<>>]
    /\ last = NoWrite
    /\ wr = [w \in Writers |-> Idle]
    /\ pr = NoSanitizer
    /\ nw = NotCalled
    /\ sg = NoRelay
    /\ \E a \in ArgListsD :
           rn = [pc |-> "start", args |-> <<Prog>> \o a,
                 parsed |-> EmptyParsed, rules |-> <<>>, ran |-> FALSE,
                 started |-> FALSE,
                 res |-> [kind |-> "nil", code |-> 0], ret |-> 0,
                 printed |-> <<>>]

NextRunD == RunParseArgsD \/ RunRules \/ RunStartStep \/ RunExitStep

SpecRunD == InitRunD /\ [][NextRunD]_vars

\* ------------------------------------------------------ the signal relay
\* run from signal.Notify on.  main is where run stands: "ready" before the
\* go statement, "launched" after it and before c.Run has started the
\* child, "running" while c.Run waits for the child, "waited" when c.Run has
\* returned, "returned" when run has returned and its deferred cancel has
\* fired, "exited" after os.Exit, "crashed" when the program died of a
\* panic.  relay is where the goroutine stands: at the select, about to
\* call c.Process.Signal(sig), about to call cancel(), or out of its loop.
\* process is c.Process: nil until c.Run has started the child.

Signals == {"interrupt", "SIGTERM"}

Event(ev, sig) == [ev |-> ev, sig |-> sig]

\* signal.Notify(chanSig, ...); go func() {...}()
SigLaunch ==
    /\ sg.main = "ready"
    /\ sg' = [sg EXCEPT !.main = "launched", !.relay = "select"]
    /\ UNCHANGED <<runVars, pr, nw, rn>>

\* c.Run() starts the child and sets c.Process, or fails to start it and
\* returns
SigStart(found) ==
    /\ sg.main = "launched"
    /\ sg' = IF found
             THEN [sg EXCEPT !.main = "running", !.process = "alive"]
             ELSE [sg EXCEPT !.main = "waited"]
    /\ UNCHANGED <<runVars, pr, nw, rn>>

\* the child ends, by itself or killed, and c.Run() returns
SigChildExit ==
    /\ sg.main = "running"
    /\ sg' = [sg EXCEPT !.main = "waited", !.process = "done"]
    /\ UNCHANGED <<runVars, pr, nw, rn>>

\* run returns: defer cancel()
SigReturn ==
    /\ sg.main = "waited"
    /\ sg' = [sg EXCEPT !.main = "returned", !.done = TRUE]
    /\ UNCHANGED <<runVars, pr, nw, rn>>

\* os.Exit(run(...)) ends the program, the goroutine with it
SigExit ==
    /\ sg.main = "returned"
    /\ sg' = [sg EXCEPT !.main = "exited"]
    /\ UNCHANGED <<runVars, pr, nw, rn>>

Alive == sg.main \in {"launched", "running", "waited", "returned"}

\* the signal sig arrives at the wrapper: chanSig has no buffer and Notify
\* does not block, so the relay gets it if it waits at the select and the
\* signal is lost otherwise
SigDeliver(sig) ==
    /\ Alive
    /\ sg.arrived < MaxSignals
    /\ sg' = IF sg.relay = "select" /\ ~sg.done
             THEN [sg EXCEPT !.arrived = @ + 1, !.relay = "signal",
                             !.sig = sig,
                             !.trace = Append(@, Event("receive", sig))]
             ELSE [sg EXCEPT !.arrived = @ + 1]
    /\ UNCHANGED <<runVars, pr, nw, rn>>

\* a relay that cancels first and forwards afterwards
RelayForwardCancelFirst ==
    /\ Alive
    /\ sg.relay = "signal"
    /\ sg' = [sg EXCEPT !.relay = "cancel", !.done = TRUE,
                        !.trace = Append(@, Event("cancel", sg.sig))]
    /\ UNCHANGED <<runVars, pr, nw, rn>>

\* _ = c.Process.Signal(sig): a nil c.Process is dereferenced, the
\* goroutine panics and the program dies; the error of signalling a child
\* that has ended is dropped
RelayForward ==
    /\ Alive
    /\ sg.relay = "signal"
    /\ sg' = IF sg.process = "nil"
             THEN [sg EXCEPT !.relay = "panic", !.main = "crashed"]
             ELSE [sg EXCEPT !.relay = "cancel",
                             !.trace = Append(@, Event("forward", sg.sig))]
    /\ UNCHANGED <<runVars, pr, nw, rn>>

\* cancel(), and back to the select
RelayCancel ==
    /\ Alive
    /\ sg.relay = "cancel"
    /\ sg' = [sg EXCEPT !.relay = "select", !.done = TRUE,
                        !.trace = Append(@, Event("cancel", sg.sig))]
    /\ UNCHANGED <<runVars, pr, nw, rn>>

\* a break that leaves the select only, so that the loop goes round again
RelayDoneUnlabelled ==
    /\ Alive
    /\ sg.relay = "select"
    /\ sg.done
    /\ Len(sg.trace) < 2 * MaxSignals + 2
    /\ sg' = [sg EXCEPT !.trace = Append(@, Event("done", ""))]
    /\ UNCHANGED <<runVars, pr, nw, rn>>

\* case <-ctx.Done(): break loop
RelayDone ==
    /\ Alive
    /\ sg.relay = "select"
    /\ sg.done
    /\ sg' = [sg EXCEPT !.relay = "exited",
                        !.trace = Append(@, Event("done", ""))]
    /\ UNCHANGED <<runVars, pr, nw, rn>>

InitSig ==
    /\ rules = <<>>
    /\ logPath = ""
    /\ loggerIdx = 0
    /\ logDir = <<>>
    /\ puts = <<>>
    /\ fsOK = TRUE
    /\ sink = [w \in Writers |-> <<>>]
    /\ rets = [w \in Writers |-> <<>>]
    /\ given = [w \in Writers |-> <<>>]
    /\ last = NoWrite
    /\ wr = [w \in Writers |-> Idle]
    /\ pr = NoSanitizer
    /\ nw = NotCalled
    /\ rn = NoRun
    /\ sg = [main |-> "ready", relay |-> "none", process |-> "nil",
             done |-> FALSE, sig |-> "", arrived |-> 0, trace |-> <<>>]

SigStartStep == \E found \in BOOLEAN : SigStart(found)

SigDeliverStep == \E sig \in Signals : SigDeliver(sig)

NextSig ==
    \/ SigLaunch
    \/ SigStartStep
    \/ SigChildExit
    \/ SigReturn
    \/ SigExit
    \/ SigDeliverStep
    \/ RelayForward
    \/ RelayCancel
    \/ RelayDone

SpecSig == InitSig /\ [][NextSig]_vars

\* -------------------------------------------- rules kept in a map
\* The sanitizer whose Rules is a map from pattern to replacer, and whose
\* DiscardToken is the text "@discard".

\* DiscardToken = "@discard"
MapDiscardToken == AtDiscard

\* a check against the two end-of-text characters instead
WrapIsDiscardETX(s) == s = DiscardToken

\* s == DiscardToken, in wrapReplacer
WrapIsDiscard(s) == s = MapDiscardToken

\* pattern.ReplaceAllStringFunc(in, wrapReplacer(replacer)) from position i
\* on; st carries the text built so far, the discard flag and the logger
RECURSIVE MapReplaceAll(_, _, _, _, _, _)
MapReplaceAll(rule, in, i, st, lp, fs) ==
    IF i > Len(in) THEN st
    ELSE LET L == MatchLen(rule.pattern, in, i)
         IN  IF L = 0
             THEN MapReplaceAll(rule, in, i + 1,
                      [st EXCEPT !.out = Append(@, in[i])], lp, fs)
             ELSE LET r == Replacer(rule, SubSeq(in, i, i + L - 1), lp,
                               st.lg, fs)
                  IN  MapReplaceAll(rule, in, i + L,
                          [out     |-> st.out \o r.s,
                           discard |-> st.discard \/ WrapIsDiscard(r.s),
                           lg      |-> r.lg],
                          lp, fs)

\* for pattern, replacer := range s.Rules, in the order the runtime picked;
\* stages lists, for every rule that was applied, the text it was given and
\* the text it left
RECURSIVE MapRange(_, _, _, _, _, _, _, _)
MapRange(order, k, in, discard, lg, stages, lp, fs) ==
    IF k > Len(order) \/ discard
    THEN [out |-> IF discard THEN <<>> ELSE in, lg |-> lg, stages |-> stages]
    ELSE LET r == MapReplaceAll(order[k], in, 1,
                      [out |-> <<>>, discard |-> discard, lg |-> lg], lp, fs)
         IN  MapRange(order, k + 1, r.out, r.discard, r.lg,
                 Append(stages, [rule |-> order[k], in |-> in, out |-> r.out]),
                 lp, fs)

\* Sanitizer.Sanitize(in) of the map-keyed sanitizer
MapSanitize(order, in, lg, lp, fs) ==
    MapRange(order, 1, in, FALSE, lg, <<>>, lp, fs)

\* the orders a range over the map can take
Orders(rs) ==
    {[i \in 1..Len(rs) |-> rs[f[i]]] :
         f \in {g \in [1..Len(rs) -> 1..Len(rs)] :
                   \A i, j \in 1..Len(rs) : g[i] = g[j] => i = j}}

\* SanitizerWriter.Write(p) of the map-keyed sanitizer on writer w
MapWrite(w, p, err, order) ==
    /\ WritesDone < MaxWrites
    /\ LET res == MapSanitize(order, p,
                      [idx |-> loggerIdx, dir |-> logDir, puts |-> puts],
                      logPath, fsOK)
       IN  /\ loggerIdx' = res.lg.idx
           /\ logDir' = res.lg.dir
           /\ puts' = res.lg.puts
           /\ sink' = [sink EXCEPT
                          ![w] = Append(@, [data |-> res.out, err |-> err])]
           /\ rets' = [rets EXCEPT
                          ![w] = Append(@, [n |-> Len(p), err |-> err])]
           /\ given' = [given EXCEPT
                           ![w] = Append(@, [p |-> p, idx0 |-> loggerIdx])]
           /\ last' = [w |-> w, p |-> p, idx0 |-> loggerIdx,
                       out |-> res.out, stages |-> res.stages]
    /\ UNCHANGED <<rules, logPath, fsOK, wr>>
    /\ UNCHANGED otherVars

\* the maps of the runs: (Hi|Bye) -> "@discard" as in the command's test,
\* and pairs of rules whose order decides what the discarding rule is given
MapRuleLists ==
    {<<>>,
     <<Rule(Alt(Hi, Bye), AtDiscard)>>,
     <<Rule(Lit(<<"a">>), AtDiscard), Rule(Lit(<<"b">>), <<"x">>)>>,
     <<Rule(Lit(<<"a">>), <<"b">>), Rule(Lit(<<"b">>), AtDiscard)>>,
     <<Rule(Lit(<<"a">>), AtDiscard), Rule(Lit(<<"a">>), <<"x", "*">>)>>}

HiBye == Hi \o <<" ">> \o Bye

MapChunks(rs) ==
    TextsUpTo(MaxLen)
        \cup (IF rs = <<Rule(Alt(Hi, Bye), AtDiscard)>> THEN {HiBye} ELSE {AB})

InitMap ==
    /\ rules \in MapRuleLists
    /\ logPath \in {"", "/tmp/log"}
    /\ loggerIdx = 0
    /\ logDir = <<>>
    /\ puts = <<>>
    /\ fsOK = TRUE
    /\ sink = [w \in Writers |-> <<>>]
    /\ rets = [w \in Writers |-> <<>>]
    /\ given = [w \in Writers |-> <<>>]
    /\ last = NoWrite
    /\ wr = [w \in Writers |-> Idle]
    /\ pr = NoSanitizer
    /\ nw = NotCalled
    /\ sg = NoRelay
    /\ rn = NoRun

MapWriteStep ==
    \E w \in Writers, p \in MapChunks(rules), err \in SinkErrors,
       order \in Orders(rules) : MapWrite(w, p, err, order)

NextMap == MapWriteStep \/ FsChange

SpecMap == InitMap /\ [][NextMap]_vars

\* ================================================================= claims
\* what the claims speak about, read off the latest Write
Calls == last.calls

NoDiscard(calls) == \A k \in 1..Len(calls) : calls[k].ret # DiscardToken

\* position of the first invocation that returned the discard marker, or 0
FirstDiscard(calls) ==
    IF NoDiscard(calls) THEN 0
    ELSE CHOOSE k \in 1..Len(calls) :
             /\ calls[k].ret = DiscardToken
             /\ \A j \in 1..(k - 1) : calls[j].ret # DiscardToken

\* one rule applied to the whole text x, the counter standing at idx
ApplyRule(rule, ri, x, idx, lp) ==
    ReplaceAllStringFunc(rule, ri, x, 1,
        [out |-> <<>>, discard |-> FALSE,
         lg |-> [idx |-> idx, dir |-> <<>>, puts |-> <<>>], calls |-> <<>>],
        lp, TRUE)

\* rule n applied to (... to (rule 1 applied to x))
RECURSIVE Composed(_, _, _, _, _)
Composed(rs, n, x, idx, lp) ==
    IF n = 0 THEN [out |-> x, idx |-> idx]
    ELSE LET prev == Composed(rs, n - 1, x, idx, lp)
             r == ApplyRule(rs[n], n, prev.out, prev.idx, lp)
         IN  [out |-> r.out, idx |-> r.lg.idx]

\* the text rule e of the latest Write was applied to
InputOf(e) == Composed(rules, e - 1, last.p, last.idx0, logPath).out

\* the matches of p in s from position i on, left to right
RECURSIVE MatchTexts(_, _, _)
MatchTexts(p, s, i) ==
    IF i > Len(s) THEN <<>>
    ELSE LET L == MatchLen(p, s, i)
         IN  IF L = 0 THEN MatchTexts(p, s, i + 1)
             ELSE <<SubSeq(s, i, i + L - 1)>> \o MatchTexts(p, s, i + L)

\* the matched texts the replacer of rule e was invoked with, in order
InvokedWith(e) ==
    LET OfRule(c) == c.rule = e
        sel == SelectSeq(Calls, OfRule)
    IN  [i \in 1..Len(sel) |-> sel[i].in]

\* rule e was applied to the whole text it was given
RanInFull(e) == InvokedWith(e) = MatchTexts(rules[e].pattern, InputOf(e), 1)

Logging == logPath # ""

\* C1: without a discard the result of Sanitize is rule n applied to (... to
\* (rule 1 applied to the chunk)); so [^whole line$ -> "this line was
\* deleted", "delete" -> "-"] turns "whole line" into "this line was -d" and
\* the reversed list turns it into "this line was deleted".
C1_RulesInListOrder ==
    last.w # "" =>
        /\ NoDiscard(Calls) =>
               last.out = Composed(rules, Len(rules), last.p, last.idx0,
                                   logPath).out
        /\ (rules = RulesSimple /\ last.p = WholeLine) =>
               last.out = ThisLineWasD
        /\ (rules = RulesSimpleReversed /\ last.p = WholeLine) =>
               last.out = ThisLineWasDeleted

C1_Witness ==
    /\ rules = RulesSimple
    /\ last.p = WholeLine
    /\ Len(Calls) = 2
    /\ last.out = ThisLineWasD

\* C2: when a replacement returns the discard marker at rule k, Sanitize
\* returns the empty text for the whole chunk, no rule after k is applied,
\* and rules 1..k-1 have run in full, their matches logged when logging is on.
C2_DiscardEmptiesChunk ==
    LET k == FirstDiscard(Calls)
    IN  k > 0 =>
            LET d == Calls[k].rule
            IN  /\ last.out = <<>>
                /\ sink[last.w][Len(sink[last.w])].data = <<>>
                /\ \A j \in 1..Len(Calls) : Calls[j].rule <= d
                /\ \A e \in 1..(d - 1) : RanInFull(e)
                /\ Logging =>
                       \A j \in 1..Len(Calls) :
                           \E i \in 1..Len(puts) :
                               /\ puts[i].name = Sprint(Calls[j].idx)
                               /\ puts[i].data = Calls[j].in

C2_Witness ==
    /\ rules = RulesDiscard
    /\ Logging
    /\ last.p = AB
    /\ FirstDiscard(Calls) = 2
    /\ Calls[1].rule = 1
    /\ last.out = <<>>


\* C3: with the stdout writer and the stderr writer sharing one logger and
\* their Write calls interleaving in any way, no index is given to two
\* matches and no logged match is lost: every match is kept under its own key.
C3_NoIndexTwiceNoEntryLost ==
    /\ \A k1, k2 \in 1..Len(puts) : k1 # k2 => puts[k1].name # puts[k2].name
    /\ \A k \in 1..Len(puts) :
           puts[k].ok => logDir[puts[k].name] = puts[k].data

\* C4: with Write calls that do not overlap, the k-th invocation of a logged
\* replacement (k = 0, 1, ...) takes index k and hands the original matched
\* text to the log under the decimal string of k; no index is skipped or
\* used twice, and an entry that was written is kept.
C4_IndexPerInvocation ==
    Logging =>
        /\ Len(puts) = loggerIdx
        /\ \A k \in 1..Len(puts) : puts[k].name = Sprint(k - 1)
        /\ \A k1, k2 \in 1..Len(puts) :
               k1 # k2 => puts[k1].name # puts[k2].name
        /\ Len(puts) >= 11 => puts[11].name = <<"1", "0">>
        /\ loggerIdx = last.idx0 + Len(Calls)
        /\ \A j \in 1..Len(Calls) :
               /\ Calls[j].idx = last.idx0 + j - 1
               /\ puts[Calls[j].idx + 1].data = Calls[j].in
               /\ MatchLen(rules[Calls[j].rule].pattern, Calls[j].in, 1)
                      = Len(Calls[j].in)
        /\ DOMAIN logDir = {puts[k].name : k \in {i \in 1..Len(puts) : puts[i].ok}}
        /\ \A k \in 1..Len(puts) :
               puts[k].ok => logDir[puts[k].name] = puts[k].data

C4_Witness ==
    /\ Logging
    /\ Len(puts) = 12
    /\ Len(given["stdout"]) = 1
    /\ Len(given["stderr"]) = 1
    /\ puts[11].ok
    /\ logDir[<<"1", "0">>] = <<"a">>
    /\ Calls[5].idx = 10
    /\ Calls[5].ret = <<"1", "0", "-", "*">>

\* C5 as stated: once a replacement result is the discard marker the
\* replacement function is not invoked again for that chunk.
C5_NoInvocationAfterDiscard ==
    \A k \in 1..Len(Calls) : Calls[k].ret = DiscardToken => k = Len(Calls)

\* C5 amended: once a replacement result is the discard marker no later rule
\* is applied to the chunk, but the discarding rule still runs over the rest
\* of the chunk: each of its remaining matches is passed to the replacement
\* function and, with logging on, takes an index and is logged.
C5_DiscardFinishesItsRule ==
    LET k == FirstDiscard(Calls)
    IN  k > 0 =>
            LET d == Calls[k].rule
            IN  /\ \A j \in k..Len(Calls) : Calls[j].rule = d
                /\ RanInFull(d)
                /\ Logging =>
                       /\ loggerIdx = last.idx0 + Len(Calls)
                       /\ \A j \in k..Len(Calls) :
                              /\ puts[Calls[j].idx + 1].data = Calls[j].in
                              /\ Calls[j].idx = last.idx0 + j - 1

C5_Witness ==
    /\ Logging
    /\ rules = RulesDiscard
    /\ last.p = BB
    /\ FirstDiscard(Calls) = 1
    /\ Len(Calls) = 2
    /\ loggerIdx = last.idx0 + 2


\* the replacement supplied for pattern i
SuppliedFor(reps, i) ==
    IF Len(reps) = 0 THEN <<>> ELSE IF Len(reps) = 1 THEN reps[1] ELSE reps[i]

\* every match of every pattern replaced in turn, "@@discard" standing for
\* the text "@discard", and no chunk dropped
RECURSIVE ReplacedInTurn(_, _, _, _)
ReplacedInTurn(ps, reps, n, in) ==
    IF n = 0 THEN in
    ELSE LET r == SuppliedFor(reps, n)
         IN  ReplaceAllLiteral(ps[n], ReplacedInTurn(ps, reps, n - 1, in),
                               IF r = AtAtDiscard THEN AtDiscard ELSE r, 1)

\* C6: a replacement "@@discard" never discards a chunk: every match becomes
\* the text "@discard" and the rest of the chunk is kept, for any number of
\* patterns, with one replacement for all or one per pattern, whether or not
\* later patterns match too.
C6_EscapedDiscardIsLiteral ==
    (\A i \in 1..Len(pr.Replacements) : pr.Replacements[i] # AtDiscard) =>
        \A k \in 1..Len(pr.sink) :
            pr.sink[k].data =
                ReplacedInTurn(pr.Patterns, pr.Replacements, Len(pr.Patterns),
                               pr.given[k])

\* C7: one counter serves all rules, and within a chunk the indices follow
\* the order of invocation, which is rule-major: every match of rule i, left
\* to right, before any match of rule i+1, wherever the matches sit in the
\* text; the README rules log 0=Hi, 1=Bye, 2=".*welcome to".
C7_RuleMajorIndices ==
    /\ \A i, j \in 1..Len(Calls) : i < j => Calls[i].rule <= Calls[j].rule
    /\ \A e \in 1..Len(rules) :
           (\E j \in 1..Len(Calls) : Calls[j].rule = e) => RanInFull(e)
    /\ Logging => \A j \in 1..Len(Calls) : Calls[j].idx = last.idx0 + j - 1
    /\ (Logging /\ rules = RulesReadme /\ last.p = ChilisIn /\ last.idx0 = 0) =>
           /\ last.out = ChilisOut
           /\ [i \in 1..Len(puts) |-> <<puts[i].name, puts[i].data>>]
                  = << <<<<"0">>, Hi>>, <<<<"1">>, Bye>>, <<<<"2">>, WelcomeTo>> >>

C7_Witness ==
    /\ Logging
    /\ rules = RulesReadme
    /\ last.p = ChilisIn
    /\ last.idx0 = 0
    /\ Len(Calls) = 3
    /\ Calls[3] = [rule |-> 2, in |-> WelcomeTo, idx |-> 2,
                   ret |-> YouHaveArrivedAt]

\* C8: with logging on, the text emitted for a match is the rule's replacement
\* with only its first "*" replaced by the decimal string of the match's
\* index; a replacement without "*" is emitted as it is, the index is taken
\* and the match is logged all the same.
C8_FirstStarOnly ==
    Logging =>
        /\ \A j \in 1..Len(Calls) :
               LET c == Calls[j]
                   r == rules[c.rule].replacement
                   stars == {i \in 1..Len(r) : r[i] = Star}
               IN  /\ IF stars = {} THEN c.ret = r
                      ELSE LET i == CHOOSE x \in stars : \A y \in stars : x <= y
                           IN  c.ret = SubSeq(r, 1, i - 1) \o Sprint(c.idx)
                                           \o SubSeq(r, i + 1, Len(r))
                   /\ c.idx = last.idx0 + j - 1
                   /\ puts[c.idx + 1].data = c.in
        /\ loggerIdx = last.idx0 + Len(Calls)
        /\ (rules = RulesStars /\ last.p = <<"a">> /\ last.idx0 = 0) =>
               last.out = <<"0", "-", "*">>

C8_Witness ==
    /\ Logging
    /\ rules = RulesStars
    /\ Calls = <<[rule |-> 2, in |-> <<"b">>, idx |-> 1, ret |-> <<"c">>]>>
    /\ loggerIdx = 2
    /\ \E w \in Writers : sink[w][1].data = <<"0", "-", "*">>

\* C9: Write returns n equal to the length of the chunk it was given, whatever
\* the length of the sanitized text and also when the wrapped writer fails,
\* and returns the error (or nil) the wrapped writer returned.
C9_WriteResult ==
    \A w \in Writers :
        /\ Len(rets[w]) = Len(given[w])
        /\ \A k \in 1..Len(rets[w]) :
               /\ rets[w][k].n = Len(given[w][k].p)
               /\ rets[w][k].err = sink[w][k].err

C9_Witness ==
    \E w \in Writers :
        /\ Len(rets[w]) = 2
        /\ rets[w][1] = [n |-> 2, err |-> "EPIPE"]
        /\ sink[w][1].data = <<>>
        /\ rets[w][2].n = 1
        /\ Len(sink[w][2].data) = 2

\* C10: each Write call makes exactly one write to the wrapped writer, with
\* Sanitize of that call's chunk alone, in the order of the calls; nothing is
\* carried over, so a pattern split over two chunks is not replaced.
C10_OneSinkWritePerCall ==
    \A w \in Writers :
        /\ Len(sink[w]) = Len(given[w])
        /\ \A k \in 1..Len(sink[w]) :
               sink[w][k].data =
                   Sanitize(rules, given[w][k].p,
                            [idx |-> given[w][k].idx0, dir |-> <<>>,
                             puts |-> <<>>], logPath, TRUE).out
        /\ \A k \in 1..(Len(given[w]) - 1) :
               (/\ rules = RulesSplit
                /\ given[w][k].p = <<"a">>
                /\ given[w][k + 1].p = <<"b">>) =>
                   /\ sink[w][k].data = <<"a">>
                   /\ sink[w][k + 1].data = <<"b">>

C10_Witness ==
    /\ rules = RulesSplit
    /\ \E w \in Writers :
           /\ Len(given[w]) = 2
           /\ given[w][1].p = <<"a">>
           /\ given[w][2].p = <<"b">>
           /\ sink[w][1].data = <<"a">>
           /\ sink[w][2].data = <<"b">>

C11_WitnessNoMatch ==
    /\ last.w # ""
    /\ last.out # <<>>
    /\ \E k \in 1..Len(last.stages) :
           /\ last.stages[k].rule.replacement = AtDiscard
           /\ ~Matches(last.stages[k].rule.pattern, last.stages[k].in)

\* the patterns applied in turn from pattern i on, pattern i with the
\* replacement supplied for it: "@discard" drops the chunk on a match and
\* "@@discard" stands for the text "@discard"
RECURSIVE WithSupplied(_, _, _, _)
WithSupplied(ps, reps, i, in) ==
    IF i > Len(ps) THEN in
    ELSE LET r == SuppliedFor(reps, i)
         IN  IF r = AtDiscard /\ Matches(ps[i], in) THEN <<>>
             ELSE WithSupplied(ps, reps, i + 1,
                      ReplaceAllLiteral(ps[i], in,
                          IF r = AtAtDiscard THEN AtDiscard ELSE r, 1))

\* C12: the Patterns/Replacements sanitizer uses for pattern i the empty
\* text when no replacement was supplied, the one supplied replacement when
\* there is exactly one, and replacement i when there are more: what reaches
\* the wrapped writer is the chunk with every pattern applied in turn with
\* that replacement.
C12_ReplacementPerPattern ==
    \A k \in 1..Len(pr.sink) :
        pr.sink[k].data =
            WithSupplied(pr.Patterns, pr.Replacements, 1, pr.given[k])

\* C13: New fails with the mismatch error and returns no Sanitizer exactly
\* when more than one replacement is supplied and their number differs from
\* the number of regex plus plain patterns; with no replacement, with one,
\* or with one per pattern it does not fail with that error.
C13_MismatchedReplacements ==
    nw.called =>
        LET mismatch ==
                /\ Len(nw.replacements) > 1
                /\ Len(nw.replacements)
                       # Len(nw.patterns) + Len(nw.plainPatterns)
        IN  /\ mismatch => /\ nw.err = ErrMismatched
                           /\ nw.nil
                           /\ pr = NoSanitizer
            /\ ~mismatch => nw.err # ErrMismatched

\* New was given two replacements for one pattern and failed
C13_Witness ==
    /\ nw.called
    /\ Len(nw.replacements) = 2
    /\ Len(nw.patterns) + Len(nw.plainPatterns) = 1
    /\ nw.err = ErrMismatched

\* C14: the Sanitizer New returns holds the plain patterns first, in their
\* given order and matching their text literally, then the regex patterns
\* in their given order, and replacement i belongs to pattern i of that
\* combined list; plain ["abbc"], regex ["ab+c"], replacements ["ac","a+c"]
\* turn "abbc abbbbc abc abbbbbbc" into "ac a+c a+c a+c".
C14_PlainFirstThenRegex ==
    (nw.called /\ nw.err = "nil") =>
        LET np == Len(nw.plainPatterns)
            combined ==
                [i \in 1..(np + Len(nw.patterns)) |->
                    IF i <= np THEN Lit(nw.plainPatterns[i])
                    ELSE Compile(nw.patterns[i - np]).pattern]
        IN  /\ pr.Patterns = combined
            /\ pr.Replacements = nw.replacements
            /\ Len(nw.replacements) > 1 =>
                   \A k \in 1..Len(pr.sink) :
                       pr.sink[k].data =
                           WithSupplied(combined, nw.replacements, 1,
                                        pr.given[k])
            /\ \A k \in 1..Len(pr.sink) :
                   pr.given[k] = PlainFirstIn =>
                       pr.sink[k].data = PlainFirstOut

\* the test's example was written through the sanitizer New returned
C14_Witness ==
    /\ nw.called
    /\ nw.patterns = <<ABPlusC>>
    /\ nw.plainPatterns = <<ABBC>>
    /\ Len(pr.sink) > 0
    /\ pr.given[1] = PlainFirstIn
    /\ pr.sink[1].data = PlainFirstOut

\* C15: a log entry that cannot be written changes nothing else: the text
\* forwarded, what Write returns, the counter and the index and replacement
\* of every invocation are those of the same Write with a writable log
\* directory; the index of the failed entry is consumed and spliced like
\* any other.
C15_PersistFailureSwallowed ==
    last.w # "" =>
        LET ok == Sanitize(rules, last.p,
                      [idx |-> last.idx0, dir |-> <<>>, puts |-> <<>>],
                      logPath, TRUE)
            n == Len(sink[last.w])
        IN  /\ last.out = ok.out
            /\ sink[last.w][n].data = ok.out
            /\ rets[last.w][n] = [n |-> Len(last.p), err |-> sink[last.w][n].err]
            /\ last.calls = ok.calls
            /\ loggerIdx = ok.lg.idx
            /\ \A q \in 1..Len(puts) : puts[q].name = Sprint(q - 1)
            /\ \A k \in 1..Len(last.calls) :
                   last.calls[k].idx >= 0 =>
                       last.calls[k].ret =
                           SpliceIndex(rules[last.calls[k].rule].replacement,
                                       last.calls[k].idx)

\* an entry could not be written, its index went into the replacement all
\* the same, and a later match got the next index
C15_Witness ==
    /\ last.w # ""
    /\ \E k \in 1..(Len(last.calls) - 1) :
           LET c == last.calls[k]
           IN  /\ c.idx >= 0
               /\ ~puts[c.idx + 1].ok
               /\ c.ret # rules[c.rule].replacement
               /\ last.calls[k + 1].idx = c.idx + 1
               /\ logDir = <<>>

\* every rule applied in turn with its replacement as given, from rule i on
RECURSIVE AsGiven(_, _, _)
AsGiven(rs, i, in) ==
    IF i > Len(rs) THEN in
    ELSE AsGiven(rs, i + 1,
             ReplaceAllLiteral(rs[i].pattern, in, rs[i].replacement, 1))

\* C16: without a log directory sanitizing writes no log entry and leaves
\* the counter alone, and every match is replaced by the rule's replacement
\* as given, a "*" in it included.
C16_NoLogNoIndex ==
    ~Logging =>
        /\ puts = <<>>
        /\ logDir = <<>>
        /\ loggerIdx = 0
        /\ \A k \in 1..Len(Calls) :
               /\ Calls[k].idx = -1
               /\ Calls[k].ret = rules[Calls[k].rule].replacement
        /\ (last.w # "" /\ NoDiscard(Calls)) =>
               last.out = AsGiven(rules, 1, last.p)

\* "a" was written under a -> "*-*" without a log directory and came out
\* as "*-*"
C16_Witness ==
    /\ ~Logging
    /\ rules = RulesStars
    /\ last.p = <<"a">>
    /\ last.out = <<"*", "-", "*">>

\* parseArgs was called in this run, on Tail(rn.args)
Parsed == rn.pc \notin {"none", "start"} /\ Len(rn.args) >= 2

\* the number of arguments before the "--" that ends the options: parseArgs
\* reads a flag at every second argument
RECURSIVE OptEnd(_, _)
OptEnd(a, j) ==
    IF j >= Len(a) THEN Len(a)
    ELSE IF a[j + 1] = DashDash THEN j
    ELSE OptEnd(a, j + 2)

\* the positions (arguments before them) where a flag stands
FlagAt(a) == {j \in 0..(OptEnd(a, 0) - 1) : j % 2 = 0}

IsPatternFlag(x) == x \in {FlagRegex, FlagPlain}

\* the flag at j is a pattern and the next flag is its -r
FollowedByR(a, j) ==
    /\ j + 2 \in FlagAt(a)
    /\ a[j + 3] = FlagR
    /\ j + 3 < Len(a)

\* the flag at j comes right after a pattern and its value
AfterPattern(a, j) == j >= 2 /\ IsPatternFlag(a[j - 1])

ArgErrors ==
    {ErrUnbalanced, ErrPatternPending, ErrNoPattern, ErrUnrecognized}

\* C17: run reports every error of the argument grammar and every pattern
\* that does not compile before it starts the child: a command line with
\* such an error never gets its child started, and once the child is
\* started run prints nothing but how the command ended.
C17_FailFast ==
    rn.pc # "none" =>
        /\ rn.started =>
               \A k \in 1..Len(rn.printed) :
                   rn.printed[k].msg \in {"command exited with code",
                                          "command exited with error"}
        /\ (\/ Len(rn.args) < 2
            \/ parseArgs(Tail(rn.args)).err # "nil"
            \/ Rules(parseArgs(Tail(rn.args))).err # "nil") => ~rn.started
        /\ (\E k \in 1..Len(rn.printed) :
                rn.printed[k].msg \in ArgErrors \cup {"parsing pattern"})
               => (~rn.ran /\ rn.pc = "done" /\ rn.ret = 1)

\* a command line that names a command and has a pattern that does not
\* compile: run has returned 1 and the command was never started
C17_Witness ==
    /\ rn.pc = "done"
    /\ rn.parsed.cmd = Echo
    /\ rn.printed = <<Printed("parsing pattern", 0)>>
    /\ ~rn.started

\* C18: parseArgs accepts a command line only if every -p:regex / -p:plain
\* is directly followed by its -r and every -r directly follows a pattern;
\* where the first thing wrong is a pattern after a pattern the error is
\* "pattern must be followed with a replacement", where it is a -r without
\* a pattern before it the error is "replacement must be directly preceeded
\* by a pattern"; a pattern still waiting at "--" or at the end, or with
\* another flag between it and its -r, is not accepted.
C18_PatternsPaired ==
    Parsed =>
        LET a == Tail(rn.args)
            p == rn.parsed
        IN  /\ p.err = "nil" =>
                   \A j \in FlagAt(a) :
                       /\ IsPatternFlag(a[j + 1]) => FollowedByR(a, j)
                       /\ a[j + 1] = FlagR => AfterPattern(a, j)
            /\ \A j \in FlagAt(a) :
                   (/\ j + 1 < Len(a)
                    /\ parseArgs(SubSeq(a, 1, j)).err = "nil") =>
                       /\ (IsPatternFlag(a[j + 1]) /\ AfterPattern(a, j))
                              => p.err = ErrPatternPending
                       /\ (a[j + 1] = FlagR /\ ~AfterPattern(a, j))
                              => p.err = ErrNoPattern

\* a command line of flags with values, ended by "--", whose patterns are
\* not empty and stand directly before their -r
WellFormed(a) ==
    /\ OptEnd(a, 0) < Len(a)
    /\ \A j \in FlagAt(a) :
           /\ a[j + 1] \in {FlagLog, FlagRegex, FlagPlain, FlagR}
           /\ IsPatternFlag(a[j + 1]) => (a[j + 2] # <<>> /\ FollowedByR(a, j))
           /\ a[j + 1] = FlagR => AfterPattern(a, j)

\* the positions of the -r flags, and the k-th of them
RulesAt(a) == {j \in FlagAt(a) : a[j + 1] = FlagR}
RuleAt(a, k) ==
    CHOOSE j \in RulesAt(a) : Cardinality({x \in RulesAt(a) : x < j}) = k - 1

\* p is the text v with a backslash before every metacharacter
Escaped(p, v) ==
    LET lx == Lex(p)
    IN  /\ lx.ok
        /\ Len(lx.toks) = Len(v)
        /\ \A i \in 1..Len(v) : lx.toks[i].lit /\ lx.toks[i].c = v[i]
        /\ Len(p) = Len(v) + Cardinality({i \in 1..Len(v) : v[i] \in Meta})

LogsAt(a) == {j \in FlagAt(a) : a[j + 1] = FlagLog}

\* C19: for a well-formed command line parseArgs returns one rule per
\* pattern/replacement pair, in the order of the command line, a regex
\* pattern as given and a plain pattern with its metacharacters escaped
\* ("^escape$" as "\^escape\$"), the value of -log as logPath, the argument
\* after "--" as cmd and all arguments after that, whatever they look like,
\* as cmdArgs.
C19_ParsedInOrder ==
    (Parsed /\ WellFormed(Tail(rn.args))) =>
        LET a == Tail(rn.args)
            p == rn.parsed
            e == OptEnd(a, 0)
        IN  /\ p.err = "nil"
            /\ Len(p.rules) = Cardinality(RulesAt(a))
            /\ \A k \in 1..Len(p.rules) :
                   LET j == RuleAt(a, k)
                   IN  /\ p.rules[k].replacement = a[j + 2]
                       /\ IF a[j - 1] = FlagRegex
                          THEN p.rules[k].pattern = a[j]
                          ELSE Escaped(p.rules[k].pattern, a[j])
            /\ p.logPath =
                   (IF LogsAt(a) = {} THEN <<>>
                    ELSE a[(CHOOSE j \in LogsAt(a) :
                               \A x \in LogsAt(a) : x <= j) + 2])
            /\ p.cmd = (IF e + 2 <= Len(a) THEN a[e + 2] ELSE <<>>)
            /\ p.cmdArgs = SubSeq(a, e + 3, Len(a))
            /\ a = ArgsFull => p.rules[2].pattern = EscapeQuoted

\* the command line of the test was parsed: three rules in order, the
\* second with its pattern escaped, and flags after "--" kept as arguments
C19_Witness ==
    /\ Parsed
    /\ Tail(rn.args) = ArgsFull
    /\ Len(rn.parsed.rules) = 3
    /\ rn.parsed.rules[2] = [pattern |-> EscapeQuoted, replacement |-> N1234]
    /\ rn.parsed.cmdArgs = <<Hi, Bye>>

NoneMatches(rs, s) == \A e \in 1..Len(rs) : ~Matches(rs[e].pattern, s)

\* C21: a chunk that no rule's pattern matches, in particular any chunk
\* under the empty rule list, comes out of Sanitize unchanged, with no
\* replacer invoked and no log index used; sanitizing the result again
\* gives the same text.
C21_NoMatchUnchanged ==
    (last.w # "" /\ NoneMatches(rules, last.p)) =>
        /\ last.out = last.p
        /\ sink[last.w][Len(sink[last.w])].data = last.p
        /\ Calls = <<>>
        /\ loggerIdx = last.idx0
        /\ Len(puts) = last.idx0
        /\ LET again == Sanitize(rules, last.out,
                            [idx |-> loggerIdx, dir |-> logDir,
                             puts |-> puts], logPath, fsOK)
           IN  /\ again.out = last.out
               /\ again.calls = <<>>
               /\ again.lg.idx = loggerIdx

\* a non-empty chunk went through a non-empty rule list with a log
\* directory and none of the patterns matched it
C21_Witness ==
    /\ last.w # ""
    /\ Logging
    /\ rules # <<>>
    /\ last.p # <<>>
    /\ NoneMatches(rules, last.p)
    /\ last.out = last.p

\* C22: in the parseArgs that knows -r:discard a replacement flag is
\* refused with "replacement must be directly preceeded by a pattern"
\* exactly when no pattern waits: a command line that begins with -r or
\* -r:discard is refused with it; one that begins "-p:regex P -r V" is not,
\* and "-p:regex P -r V --" gives the rule (P, V); one that begins
\* "-p:regex P -r:discard" is not, and "-p:regex P -r:discard -- c" gives
\* the rule (P, DiscardToken) with c as the command; after either the
\* pattern no longer waits, so a second replacement flag is refused.
C22_ReplacementNeedsPattern ==
    Parsed =>
        LET a == Tail(rn.args)
            p == rn.parsed
            IsR(x) == x \in {FlagR, FlagRDiscard}
            pending == Len(a) >= 3 /\ a[1] = FlagRegex /\ a[2] # <<>>
            withR == pending /\ a[3] = FlagR /\ Len(a) >= 5
            withD == pending /\ a[3] = FlagRDiscard /\ Len(a) >= 4
        IN  /\ IsR(a[1]) => p.err = ErrNoPattern
            /\ (withR /\ a[5] = DashDash) =>
                   /\ p.err = "nil"
                   /\ p.rules = <<[pattern |-> a[2], replacement |-> a[4]]>>
            /\ (withR /\ IsR(a[5])) => p.err = ErrNoPattern
            /\ (withD /\ a[4] = DashDash) =>
                   /\ p.err = "nil"
                   /\ p.rules = <<[pattern |-> a[2],
                                   replacement |-> DiscardToken]>>
                   /\ p.cmd = (IF Len(a) >= 5 THEN a[5] ELSE <<>>)
            /\ (withD /\ IsR(a[4])) => p.err = ErrNoPattern

\* C23: the relay handles a signal by forwarding that same signal to the
\* child and only then cancelling the context, so the context is never
\* cancelled by the relay before the forward and a cancel not made by the
\* relay comes from run's return; and when the relay takes the ctx.Done
\* case it leaves its loop: nothing follows that in what the relay does.
C23_ForwardThenCancel ==
    sg.main # "none" =>
        /\ \A k \in 1..Len(sg.trace) :
               /\ sg.trace[k].ev = "forward" =>
                      /\ k > 1
                      /\ sg.trace[k - 1] = Event("receive", sg.trace[k].sig)
               /\ sg.trace[k].ev = "cancel" =>
                      /\ k > 1
                      /\ sg.trace[k - 1] = Event("forward", sg.trace[k].sig)
               /\ sg.trace[k].ev = "done" =>
                      (k = Len(sg.trace) /\ sg.relay = "exited")
        /\ sg.relay = "cancel" =>
               sg.trace[Len(sg.trace)] = Event("forward", sg.sig)
        /\ sg.done =>
               \/ sg.main \notin {"launched", "running", "waited"}
               \/ \E k \in 1..Len(sg.trace) : sg.trace[k].ev = "cancel"
        /\ sg.relay = "exited" => sg.done

\* SIGTERM arrived while the child was running: the relay forwarded it,
\* cancelled the context, saw the context done and left its loop
C23_Witness ==
    /\ sg.main = "running"
    /\ sg.process = "alive"
    /\ sg.relay = "exited"
    /\ sg.trace = <<Event("receive", "SIGTERM"), Event("forward", "SIGTERM"),
                    Event("cancel", "SIGTERM"), Event("done", "")>>

\* C24: whenever a signal reaches the relay after the goroutine is
\* launched, before the child is started, while it runs or after it has
\* ended, handling it does not crash the wrapper: the relay never calls
\* Signal on a nil c.Process.
C24_RelayNeverCrashes ==
    sg.main # "none" => (sg.relay # "panic" /\ sg.main # "crashed")

\* the positions (arguments before them) where parseArgs reads a flag, in
\* either variant: "-r:discard" stands alone, every other flag has a value
RECURSIVE FlagsFrom(_, _)
FlagsFrom(a, j) ==
    IF j >= Len(a) \/ a[j + 1] = DashDash THEN {}
    ELSE {j} \cup FlagsFrom(a, IF a[j + 1] = FlagRDiscard THEN j + 1
                               ELSE j + 2)

\* the replacement flags of a command line, and the k-th of them
ReplacementsAt(a) ==
    {j \in FlagsFrom(a, 0) : a[j + 1] \in {FlagR, FlagRDiscard}}
ReplacementAt(a, k) ==
    CHOOSE j \in ReplacementsAt(a) :
        Cardinality({x \in ReplacementsAt(a) : x < j}) = k - 1

\* the pattern flags before position j that no replacement flag has used
\* yet, and the last of them
PatternsBefore(a, j) ==
    {m \in FlagsFrom(a, 0) :
        /\ m < j
        /\ IsPatternFlag(a[m + 1])
        /\ \A x \in ReplacementsAt(a) : ~(m < x /\ x < j)}
LastPattern(a, j) ==
    CHOOSE m \in PatternsBefore(a, j) : \A x \in PatternsBefore(a, j) : x <= m

\* a pattern with a value that is not empty waits at position j
Pending(a, j) ==
    PatternsBefore(a, j) # {} /\ a[LastPattern(a, j) + 2] # <<>>

\* C25: the rules parseArgs returns all have a pattern that is not empty;
\* there are as many of them as replacement flags on the command line, the
\* k-th with the value of the k-th replacement flag and with the pattern of
\* the last pattern flag before it (escaped for -p:plain); a failed parse
\* returns no rules; and a pattern flag with an empty value counts as no
\* pattern: a -r after it is refused with "replacement must be directly
\* preceeded by a pattern" and a pattern flag after it is not refused with
\* "pattern must be followed with a replacement".
C25_RulesFromFlags ==
    Parsed =>
        LET a == Tail(rn.args)
            p == rn.parsed
        IN  /\ \A k \in 1..Len(p.rules) : p.rules[k].pattern # <<>>
            /\ p.err # "nil" => p.rules = <<>>
            /\ p.err = "nil" =>
                   /\ Len(p.rules) = Cardinality(ReplacementsAt(a))
                   /\ \A k \in 1..Len(p.rules) :
                          LET j == ReplacementAt(a, k)
                              m == LastPattern(a, j)
                          IN  /\ Pending(a, j)
                              /\ IF a[m + 1] = FlagRegex
                                 THEN p.rules[k].pattern = a[m + 2]
                                 ELSE Escaped(p.rules[k].pattern, a[m + 2])
                              /\ p.rules[k].replacement =
                                     (IF a[j + 1] = FlagR THEN a[j + 2]
                                      ELSE DiscardToken)
            /\ (/\ Len(a) >= 4
                /\ IsPatternFlag(a[1]) /\ a[2] = <<>>
                /\ a[3] = FlagR) => p.err = ErrNoPattern
            /\ p.err = ErrPatternPending =>
                   \E j \in FlagsFrom(a, 0) :
                       IsPatternFlag(a[j + 1]) /\ Pending(a, j)

\* a command line with an empty pattern, then a plain pattern and its
\* replacement was parsed: one rule, with the escaped plain pattern
C25_Witness ==
    /\ Parsed
    /\ Len(Tail(rn.args)) >= 6
    /\ SubSeq(Tail(rn.args), 1, 4) = <<FlagRegex, <<>>, FlagPlain, <<"(">> >>
    /\ rn.parsed.err = "nil"
    /\ Len(rn.parsed.rules) = 1
    /\ rn.parsed.rules[1].pattern = <<"\\", "(">>

====
